---- MODULE Spec2Model ----
(***************************************************************************)
(* Model of the molecular-canvas editor: the molecule graph                *)
(* (src/src/molecule.rs), the document (src/src/canvas/state.rs), the      *)
(* message interpreter (src/src/canvas.rs), the tool state machine         *)
(* (src/src/toolbar.rs) and the event handler                              *)
(* (src/src/canvas/event_handler.rs).                                      *)
(*                                                                         *)
(* Identifiers (Uuid::new_v4) are natural numbers: every call of           *)
(* AtomId::new / BondId::new / MoleculeId::new yields the least number     *)
(* that no part of the program state holds, which is a value different     *)
(* from every identifier the program can still compare it with.            *)
(* Floating-point geometry is not part of this model: the entity          *)
(* under the pointer (State::get_hovered) is an input of every event,      *)
(* drawn from the entities of the document, and the iteration order of a   *)
(* hash map is an input drawn from the orders of its keys.                 *)
(***************************************************************************)
EXTENDS Integers, Sequences, FiniteSets, TLC

\* ---------------------------------------------------------------- bounds
\* events the editor handles (specification Spec)
MaxEvents == 8

\* size of the molecule the document starts with (specification SpecApi)
MaxAtoms == 4
MaxBonds == 3

\* SpecMouse: the pointer events of a run
MaxLog == 5

\* SpecTool: the entries of a selection
MaxSelected == 2

\* wheel events in a run of SpecScroll
MaxScrolls == 3

MaxEdits == 4

\* events in a run of SpecHeld
MaxHeldEvents == 4

\* events in a run of SpecSelection
MaxSelectionEvents == 1

\* presses, drags and messages in a run of SpecMove
MaxMoves == 3

\* ------------------------------------------------------------- utilities
EmptyMap == [x \in {} |-> 0]

Restrict(f, S) == [x \in S |-> f[x]]

\* HashMap::insert / HashMap::extend: entries of g replace those of f
Merge(f, g) == [x \in (DOMAIN f) \cup (DOMAIN g) |-> IF x \in DOMAIN g THEN g[x] ELSE f[x]]

Range(s) == {s[i] : i \in DOMAIN s}

\* every iteration order of a hash map whose key set is S
Orders(S) == {s \in [1..Cardinality(S) -> S] : Range(s) = S}

\* ------------------------------------------------------------ atom, bond
Atom(label) == [label |-> label]

Bond(start, end, bond_type) == [start |-> start, end |-> end, bond_type |-> bond_type]

atom_ids(bond) == <<bond.start, bond.end>>

flip(bond) == [bond EXCEPT !.start = bond.end, !.end = bond.start]

\* --------------------------------------------------------------- molecule
Molecule_new(atom_id, label) == [atoms |-> (atom_id :> Atom(label)), bonds |-> EmptyMap]

\* variant: a molecule is never taken to be empty
is_empty_never(mol) == FALSE

is_empty(mol) == DOMAIN mol.atoms = {}

attached_bonds(mol, atom_id) ==
    {b \in DOMAIN mol.bonds : mol.bonds[b].start = atom_id \/ mol.bonds[b].end = atom_id}

\* order: the iteration order of the attached bonds in the bond map
RECURSIVE get_directly_connected(_, _, _)
get_directly_connected(mol, atom_id, order) ==
    IF order = <<>> THEN <<>>
    ELSE SelectSeq(atom_ids(mol.bonds[Head(order)]), LAMBDA x : x # atom_id)
         \o get_directly_connected(mol, atom_id, Tail(order))

neighbours(mol, atom_id) ==
    {x \in UNION {Range(atom_ids(mol.bonds[b])) : b \in attached_bonds(mol, atom_id)} : x # atom_id}

\* breadth-first search over the current bonds; the atoms it yields, as a set
RECURSIVE bfs(_, _, _)
bfs(mol, atoms, queue) ==
    IF queue = {} THEN atoms
    ELSE LET found == UNION {Range(atom_ids(mol.bonds[b])) :
                              b \in UNION {attached_bonds(mol, a) : a \in queue}}
             new == found \ atoms
         IN bfs(mol, atoms \cup new, new)

get_connected(mol, atom_id) == bfs(mol, {atom_id}, {atom_id})

\* Ok iff the atom and all atoms bonded to it resolve in the atom map
update_atom_label_direction(mol, atom_id) ==
    [mol |-> mol,
     err |-> ~(atom_id \in DOMAIN mol.atoms /\ neighbours(mol, atom_id) \subseteq DOMAIN mol.atoms)]

\* variant: every touched atom counts as a fragment of its own
RECURSIVE unique_atom_sets_all(_, _, _, _)
unique_atom_sets_all(mol, touched, seen, acc) ==
    IF touched = <<>> THEN acc
    ELSE unique_atom_sets_all(mol, Tail(touched), seen,
                              Append(acc, get_connected(mol, Head(touched))))

\* the deduplication loop of split_fragments (lines 233-247)
RECURSIVE unique_atom_sets(_, _, _, _)
unique_atom_sets(mol, touched, seen, acc) ==
    IF touched = <<>> THEN acc
    ELSE LET atom_set == get_connected(mol, Head(touched))
         IN IF atom_set \cap seen # {}
            THEN unique_atom_sets(mol, Tail(touched), seen \cup atom_set, acc)
            ELSE unique_atom_sets(mol, Tail(touched), seen \cup atom_set, Append(acc, atom_set))

\* variant: the atoms of a fragment are copied, not moved, out of the source
RECURSIVE extract_clone(_, _, _)
extract_clone(mol, sets, molecules) ==
    IF sets = <<>> THEN [mol |-> mol, ret |-> molecules, err |-> FALSE]
    ELSE LET atom_set == Head(sets)
             moved == {b \in DOMAIN mol.bonds :
                          mol.bonds[b].start \in atom_set \/ mol.bonds[b].end \in atom_set}
         IN extract_clone([mol EXCEPT !.bonds = Restrict(mol.bonds, DOMAIN mol.bonds \ moved)],
                          Tail(sets),
                          Append(molecules, [atoms |-> Restrict(mol.atoms, atom_set \cap DOMAIN mol.atoms),
                                             bonds |-> Restrict(mol.bonds, moved)]))

\* the extraction loop of split_fragments (lines 256-289)
RECURSIVE extract(_, _, _)
extract(mol, sets, molecules) ==
    IF sets = <<>> THEN [mol |-> mol, ret |-> molecules, err |-> FALSE]
    ELSE LET atom_set == Head(sets)
             present == atom_set \cap DOMAIN mol.atoms
             moved == {b \in DOMAIN mol.bonds :
                          mol.bonds[b].start \in atom_set \/ mol.bonds[b].end \in atom_set}
         IN IF present # atom_set
            THEN [mol |-> [mol EXCEPT !.atoms = Restrict(mol.atoms, DOMAIN mol.atoms \ present)],
                  ret |-> <<>>, err |-> TRUE]
            ELSE extract([atoms |-> Restrict(mol.atoms, DOMAIN mol.atoms \ atom_set),
                          bonds |-> Restrict(mol.bonds, DOMAIN mol.bonds \ moved)],
                         Tail(sets),
                         Append(molecules, [atoms |-> Restrict(mol.atoms, atom_set),
                                            bonds |-> Restrict(mol.bonds, moved)]))

\* variant: the molecule is never split
split_fragments_never(mol, touched) == [mol |-> mol, ret |-> <<>>, err |-> FALSE]

split_fragments(mol, touched) ==
    LET unique == unique_atom_sets(mol, touched, {}, <<>>)
    IN IF Len(unique) < 2
       THEN [mol |-> mol, ret |-> <<>>, err |-> FALSE]
       ELSE extract(mol, Tail(unique), <<>>)

RECURSIVE update_directions(_, _)
update_directions(mol, atoms) ==
    IF atoms = <<>> THEN FALSE
    ELSE update_atom_label_direction(mol, Head(atoms)).err \/ update_directions(mol, Tail(atoms))

\* variant: the bonds of the merged molecule are not taken over
extend_atoms_only(self, molecule) ==
    [atoms |-> Merge(self.atoms, molecule.atoms), bonds |-> self.bonds]

extend(self, molecule) ==
    [atoms |-> Merge(self.atoms, molecule.atoms), bonds |-> Merge(self.bonds, molecule.bonds)]

\* variant: the label stays
rename_atom_keep(mol, atom_id, text) ==
    IF atom_id \notin DOMAIN mol.atoms THEN [mol |-> mol, err |-> TRUE]
    ELSE [mol |-> mol, err |-> FALSE]

rename_atom(mol, atom_id, text) ==
    IF atom_id \notin DOMAIN mol.atoms THEN [mol |-> mol, err |-> TRUE]
    ELSE [mol |-> [mol EXCEPT !.atoms[atom_id].label = text], err |-> FALSE]

add_atom(mol, atom_id, label) ==
    [mol |-> [mol EXCEPT !.atoms = Merge(mol.atoms, atom_id :> Atom(label))],
     err |-> atom_id \in DOMAIN mol.atoms]

\* add_bond that inserts nothing
add_bond_none(mol, start, end, bond_type, bond_id) == [mol |-> mol, err |-> FALSE]

\* bond_id: the value of BondId::new()
add_bond(mol, start, end, bond_type, bond_id) ==
    LET m1 == [mol EXCEPT !.bonds = Merge(mol.bonds, bond_id :> Bond(start, end, bond_type))]
    IN [mol |-> m1,
        err |-> \/ bond_id \in DOMAIN mol.bonds
                \/ update_atom_label_direction(m1, start).err
                \/ update_atom_label_direction(m1, end).err]

\* variant: the bonds attached to the deleted atom stay in the bond map
delete_atom_keep_bonds(mol, atom_id, order) ==
    IF atom_id \notin DOMAIN mol.atoms THEN [mol |-> mol, ret |-> <<>>, err |-> TRUE]
    ELSE LET m1 == [mol EXCEPT !.atoms = Restrict(mol.atoms, DOMAIN mol.atoms \ {atom_id})]
             connected_atoms == get_directly_connected(m1, atom_id, order)
         IN IF update_directions(m1, connected_atoms)
            THEN [mol |-> m1, ret |-> <<>>, err |-> TRUE]
            ELSE split_fragments(m1, connected_atoms)

\* order: the iteration order of the bond map over the bonds attached to atom_id
delete_atom(mol, atom_id, order) ==
    IF atom_id \notin DOMAIN mol.atoms THEN [mol |-> mol, ret |-> <<>>, err |-> TRUE]
    ELSE LET m1 == [mol EXCEPT !.atoms = Restrict(mol.atoms, DOMAIN mol.atoms \ {atom_id})]
             connected_atoms == get_directly_connected(m1, atom_id, order)
             m2 == [m1 EXCEPT !.bonds = Restrict(m1.bonds, DOMAIN m1.bonds \ Range(order))]
         IN IF update_directions(m2, connected_atoms)
            THEN [mol |-> m2, ret |-> <<>>, err |-> TRUE]
            ELSE split_fragments(m2, connected_atoms)

delete_bond(mol, bond_id) ==
    IF bond_id \notin DOMAIN mol.bonds THEN [mol |-> mol, ret |-> <<>>, err |-> TRUE]
    ELSE LET bond_atoms == atom_ids(mol.bonds[bond_id])
             m1 == [mol EXCEPT !.bonds = Restrict(mol.bonds, DOMAIN mol.bonds \ {bond_id})]
         IN IF update_directions(m1, bond_atoms)
            THEN [mol |-> m1, ret |-> <<>>, err |-> TRUE]
            ELSE split_fragments(m1, bond_atoms)

\* positions are not modelled: a move succeeds or fails as the lookups do
move_atom(mol, atom_id) ==
    [mol |-> mol,
     err |-> \/ atom_id \notin DOMAIN mol.atoms
             \/ update_atom_label_direction(mol, atom_id).err
             \/ \E n \in neighbours(mol, atom_id) : update_atom_label_direction(mol, n).err]

move_bond(mol, bond_id) ==
    [mol |-> mol,
     err |-> \/ bond_id \notin DOMAIN mol.bonds
             \/ \E a \in Range(atom_ids(mol.bonds[bond_id])) :
                   \/ a \notin DOMAIN mol.atoms
                   \/ update_atom_label_direction(mol, a).err
                   \/ \E n \in neighbours(mol, a) : update_atom_label_direction(mol, n).err]

change_bond_type(mol, bond_id, bond_type) ==
    IF bond_id \notin DOMAIN mol.bonds THEN mol
    ELSE [mol EXCEPT !.bonds[bond_id].bond_type = bond_type]

flip_bond(mol, bond_id) ==
    IF bond_id \notin DOMAIN mol.bonds THEN mol
    ELSE [mol EXCEPT !.bonds[bond_id] = flip(mol.bonds[bond_id])]

\* -------------------------------------------------------------- selection
NoHover == [kind |-> "None", mol |-> 0, id |-> 0]

SelMolecule(m) == [kind |-> "Molecule", mol |-> m, id |-> 0]

SelAtom(m, a) == [kind |-> "Atom", mol |-> m, id |-> a]

SelBond(m, b) == [kind |-> "Bond", mol |-> m, id |-> b]

\* Selection::contains without the arm of a selected whole molecule
Selection_contains_exact(selection, hover) ==
    hover.kind # "None" /\ hover \in Range(selection)

\* variant: a hovered molecule counts as selected when a part of it is
Selection_contains_part(selection, hover) ==
    CASE hover.kind = "None" -> FALSE
      [] hover.kind = "Molecule" -> \E i \in DOMAIN selection : selection[i].mol = hover.mol
      [] OTHER -> \E i \in DOMAIN selection :
                     selection[i] = hover \/ selection[i] = SelMolecule(hover.mol)

\* Selection::contains
Selection_contains(selection, hover) ==
    CASE hover.kind = "None" -> FALSE
      [] hover.kind = "Molecule" -> hover \in Range(selection)
      [] OTHER -> \E i \in DOMAIN selection :
                     selection[i] = hover \/ selection[i] = SelMolecule(hover.mol)

\* From<HoverSelection> for Selection
Selection_from(hover) == IF hover.kind = "None" THEN <<>> ELSE <<hover>>

\* ------------------------------------------------------ tools and actions
ToolBondTypes == {"Normal1", "Normal2", "Normal3", "Wedge", "Dash", "Hydrogen"}

Tool(kind) == [kind |-> kind, bond_type |-> "None"]

ToolBond(bond_type) == [kind |-> "Bond", bond_type |-> bond_type]

Tools == {Tool(k) : k \in {"Cursor", "Select", "Pan", "Erase", "Rename", "C"}}
         \cup {ToolBond(t) : t \in ToolBondTypes}

Action(kind) == [kind |-> kind, molecule_id |-> 0, atom_id |-> 0, bond_type |-> "None"]

DrawingBond(molecule_id, atom_id, bond_type) ==
    [kind |-> "DrawingBond", molecule_id |-> molecule_id, atom_id |-> atom_id,
     bond_type |-> bond_type]

ToolAction(kind) == [kind |-> kind, arg |-> "None"]

\* Tool::action
Tool_action(tool, interaction, selection, hover) ==
    IF interaction = "MouseDragged" THEN ToolAction("CursorDragged")
    ELSE CASE tool.kind = "Cursor" ->
                CASE interaction = "MouseDown" ->
                        IF hover.kind = "None" THEN ToolAction("StartPan")
                        ELSE ToolAction("ClickSelect")
                  [] interaction = "MouseTapped" -> ToolAction("ClickSelect")
                  [] OTHER -> ToolAction("None")
           [] tool.kind = "Select" ->
                CASE interaction = "MouseDown" ->
                        IF Selection_contains(selection, hover) THEN ToolAction("StartMove")
                        ELSE ToolAction("DragSelectStart")
                  [] interaction = "MouseReleased" -> ToolAction("DragSelectFinish")
                  [] interaction = "MouseTapped" -> ToolAction("ClickSelect")
                  [] OTHER -> ToolAction("None")
           [] tool.kind = "Pan" ->
                IF interaction = "MouseDown" THEN ToolAction("StartPan") ELSE ToolAction("None")
           [] tool.kind = "Erase" ->
                IF interaction = "MouseDown" THEN ToolAction("Erase") ELSE ToolAction("None")
           [] tool.kind = "Bond" ->
                CASE interaction = "MouseDown" -> [kind |-> "BondStart", arg |-> tool.bond_type]
                  [] interaction \in {"MouseReleased", "MouseTapped"} -> ToolAction("BondFinish")
                  [] OTHER -> ToolAction("None")
           [] tool.kind = "Rename" ->
                CASE interaction = "MouseTapped" -> ToolAction("Rename")
                  [] interaction = "MouseDown" -> ToolAction("StartPan")
                  [] OTHER -> ToolAction("None")
           [] tool.kind = "C" ->
                CASE interaction = "MouseTapped" -> [kind |-> "AtomDraw", arg |-> "C"]
                  [] interaction = "MouseDown" -> ToolAction("StartPan")
                  [] OTHER -> ToolAction("None")

\* ------------------------------------------------------------ identifiers
\* the least identifier outside the set S of identifiers in use
NewId(S) == CHOOSE n \in 1..(Cardinality(S) + 1) : n \notin S /\ \A k \in 1..(n - 1) : k \in S

AtomId_new(st) == NewId(st.used.atoms)

BondId_new(st) == NewId(st.used.bonds)

MoleculeId_new(st) == NewId(st.used.mols)

UseAtom(st, id) == [st EXCEPT !.used.atoms = @ \cup {id}]

UseBond(st, id) == [st EXCEPT !.used.bonds = @ \cup {id}]

UseMol(st, id) == [st EXCEPT !.used.mols = @ \cup {id}]

\* ------------------------------------------------------------- document
\* st: the fields of MolCanvas and State; st.used holds the identifiers in
\* use, st.ret the molecules the last Molecule::delete_atom or
\* Molecule::delete_bond returned

Failed(st) == [st |-> st, err |-> TRUE]

Done(st) == [st |-> st, err |-> FALSE]

SetMolecule(st, molecule_id, mol) == [st EXCEPT !.molecules[molecule_id] = mol]

\* variant: the molecule is not inserted
add_molecule_with_atom_none(st, molecule_id, atom_id, label) ==
    [st |-> st, err |-> molecule_id \in DOMAIN st.molecules]

add_molecule_with_atom(st, molecule_id, atom_id, label) ==
    [st |-> [st EXCEPT !.molecules = Merge(st.molecules, molecule_id :> Molecule_new(atom_id, label))],
     err |-> molecule_id \in DOMAIN st.molecules]

\* variant: the molecule is looked up but stays in the document
remove_molecule_keep(st, molecule_id) ==
    [st |-> [st EXCEPT !.selection = <<>>], err |-> molecule_id \notin DOMAIN st.molecules]

\* variant: the selection stays
remove_molecule_selected(st, molecule_id) ==
    [st |-> [st EXCEPT !.molecules = Restrict(st.molecules, DOMAIN st.molecules \ {molecule_id})],
     err |-> molecule_id \notin DOMAIN st.molecules]

remove_molecule(st, molecule_id) ==
    [st |-> [st EXCEPT !.selection = <<>>,
                       !.molecules = Restrict(st.molecules, DOMAIN st.molecules \ {molecule_id})],
     err |-> molecule_id \notin DOMAIN st.molecules]

\* positions are not modelled: a move succeeds or fails as the lookups do
RECURSIVE move_selection(_, _)
move_selection(st, items) ==
    IF items = <<>> THEN FALSE
    ELSE LET item == Head(items)
             found == item.mol \in DOMAIN st.molecules
             mol == st.molecules[item.mol]
             ok == CASE ~found -> FALSE
                     [] item.kind = "Molecule" -> TRUE
                     [] item.kind = "Atom" ->
                          /\ item.id \in DOMAIN mol.atoms
                          /\ ~update_directions(mol, <<item.id>>)
                          /\ \A n \in neighbours(mol, item.id) : ~update_directions(mol, <<n>>)
                     [] OTHER ->
                          /\ item.id \in DOMAIN mol.bonds
                          /\ \A a \in Range(atom_ids(mol.bonds[item.id])) :
                                /\ a \in DOMAIN mol.atoms
                                /\ ~update_directions(mol, <<a>>)
                                /\ \A n \in neighbours(mol, a) : ~update_directions(mol, <<n>>)
         IN ~ok \/ move_selection(st, Tail(items))

\* the molecule after Molecule::delete_atom or Molecule::delete_bond has
\* changed it in place and returned r
Returned(st, molecule_id, r) ==
    [st EXCEPT !.molecules[molecule_id] = r.mol, !.ret = [mol |-> r.mol, ret |-> r.ret]]

\* State::delete_atom, lines 118-120
remove_if_empty(st, molecule_id) ==
    IF is_empty(st.molecules[molecule_id]) THEN remove_molecule(st, molecule_id).st ELSE st

\* State::delete_atom, lines 122-127: HashMap::insert of a fresh key returns
\* None, which .context(..)? turns into an error, so the loop ends in its
\* first round
insert_detached_checked(st, detached) ==
    IF detached = <<>> THEN Done(st)
    ELSE [st |-> UseMol([st EXCEPT !.molecules = Merge(st.molecules,
                                                       MoleculeId_new(st) :> Head(detached))],
                        MoleculeId_new(st)),
          err |-> MoleculeId_new(st) \notin DOMAIN st.molecules]

\* State::delete_atom from line 116 on
delete_atom_returned(st, molecule_id, r) ==
    IF r.err THEN Failed(Returned(st, molecule_id, r))
    ELSE insert_detached_checked(remove_if_empty(Returned(st, molecule_id, r), molecule_id), r.ret)

\* State::delete_atom; order as for Molecule::delete_atom
State_delete_atom(st, molecule_id, atom_id, order) ==
    IF molecule_id \notin DOMAIN st.molecules THEN Failed([st EXCEPT !.selection = <<>>])
    ELSE delete_atom_returned([st EXCEPT !.selection = <<>>], molecule_id,
                              delete_atom(st.molecules[molecule_id], atom_id, order))

\* variant: the detached molecules are not put into the document
insert_detached_drop(st, detached) == st

\* State::delete_bond, lines 135-137
RECURSIVE insert_detached(_, _)
insert_detached(st, detached) ==
    IF detached = <<>> THEN st
    ELSE insert_detached(UseMol([st EXCEPT !.molecules = Merge(st.molecules,
                                                               MoleculeId_new(st) :> Head(detached))],
                                MoleculeId_new(st)),
                         Tail(detached))

\* State::delete_bond from line 133 on
delete_bond_returned(st, molecule_id, r) ==
    IF r.err THEN Failed(Returned(st, molecule_id, r))
    ELSE Done(insert_detached(Returned(st, molecule_id, r), r.ret))

State_delete_bond(st, molecule_id, bond_id) ==
    IF molecule_id \notin DOMAIN st.molecules THEN Failed([st EXCEPT !.selection = <<>>])
    ELSE delete_bond_returned([st EXCEPT !.selection = <<>>], molecule_id,
                              delete_bond(st.molecules[molecule_id], bond_id))

\* ------------------------------------------------------ MolCanvas::update
\* one arm of the match in MolCanvas::update; order is the iteration order
\* Molecule::delete_atom finds the attached bonds in
apply(st, msg, order) ==
    CASE msg.type = "AddMoleculeWithAtom" ->
            add_molecule_with_atom(st, msg.mol, msg.atom, msg.label)
      [] msg.type = "AddAtom" ->
            IF msg.mol \notin DOMAIN st.molecules THEN Failed(st)
            ELSE LET r == add_atom(st.molecules[msg.mol], msg.atom, msg.label)
                 IN [st |-> SetMolecule(st, msg.mol, r.mol), err |-> r.err]
      [] msg.type = "FinishBond" ->
            IF msg.mol \notin DOMAIN st.molecules THEN Failed(st)
            ELSE LET end_atom_id == AtomId_new(st)
                     s1 == UseAtom(st, end_atom_id)
                     r1 == add_atom(st.molecules[msg.mol], end_atom_id, "")
                     r2 == add_bond(r1.mol, msg.atom, end_atom_id, msg.bond_type, BondId_new(st))
                 IN IF r1.err THEN Failed(SetMolecule(s1, msg.mol, r1.mol))
                    ELSE [st |-> UseBond(SetMolecule(s1, msg.mol, r2.mol), BondId_new(st)),
                          err |-> r2.err]
      [] msg.type = "NewBond" ->
            IF msg.mol \notin DOMAIN st.molecules THEN Failed(st)
            ELSE LET r == add_bond(st.molecules[msg.mol], msg.atom, msg.atom2, msg.bond_type,
                                   BondId_new(st))
                 IN [st |-> UseBond(SetMolecule(st, msg.mol, r.mol), BondId_new(st)),
                     err |-> r.err]
      [] msg.type = "ChangeBondType" ->
            IF msg.mol \notin DOMAIN st.molecules THEN Failed(st)
            ELSE Done(SetMolecule(st, msg.mol,
                                  change_bond_type(st.molecules[msg.mol], msg.bond, msg.bond_type)))
      [] msg.type = "FlipBond" ->
            IF msg.mol \notin DOMAIN st.molecules THEN Failed(st)
            ELSE Done(SetMolecule(st, msg.mol, flip_bond(st.molecules[msg.mol], msg.bond)))
      [] msg.type = "ConnectMolecules" ->
            LET r1 == remove_molecule(st, msg.mol2)
            IN IF r1.err \/ msg.mol \notin DOMAIN r1.st.molecules THEN Failed(r1.st)
               ELSE LET molecule1 == extend(r1.st.molecules[msg.mol], st.molecules[msg.mol2])
                        r2 == add_bond(molecule1, msg.atom, msg.atom2, msg.bond_type,
                                       BondId_new(st))
                    IN [st |-> UseBond(SetMolecule(r1.st, msg.mol, r2.mol), BondId_new(st)),
                        err |-> r2.err]
      [] msg.type = "RelabelAtom" ->
            IF msg.mol \notin DOMAIN st.molecules THEN Failed(st)
            ELSE LET r == rename_atom(st.molecules[msg.mol], msg.atom, msg.label)
                 IN [st |-> SetMolecule(st, msg.mol, r.mol), err |-> r.err]
      [] msg.type = "DeleteMolecule" -> remove_molecule(st, msg.mol)
      [] msg.type = "DeleteAtom" -> State_delete_atom(st, msg.mol, msg.atom, order)
      [] msg.type = "DeleteBond" -> State_delete_bond(st, msg.mol, msg.bond)
      [] msg.type = "MoveSelection" ->
            IF st.action.kind = "MovingSelection"
            THEN [st |-> st, err |-> move_selection(st, st.selection)]
            ELSE Done(st)
      [] msg.type = "NewSelection" -> Done([st EXCEPT !.selection = msg.selection])
      [] msg.type = "ToolChanged" -> Done([st EXCEPT !.tool = msg.tool])
      [] msg.type = "ActionChanged" -> Done([st EXCEPT !.action = msg.action])
      [] OTHER -> Done(st)  \* Translated, Scaled: the view is not part of st

\* MolCanvas::update: the messages in order, stopping at the first error
RECURSIVE update(_, _, _)
\* r: the result of the message before
update_rest(r, messages, order) == IF r.err THEN r ELSE update(r.st, messages, order)

update(st, messages, order) ==
    IF messages = <<>> THEN Done(st)
    ELSE update_rest(apply(st, Head(messages), order), Tail(messages), order)

\* ---------------------------------------------------------- event handler
MouseInteractions == {"None", "MouseDown", "MouseDragged", "MouseReleased", "MouseTapped"}

\* get_mouse_interaction with a release that a later move forgets
get_mouse_interaction_sticky(prev_interaction, mouse_event) ==
    CASE mouse_event = "ButtonPressed" -> [prev |-> "MouseDown", interaction |-> "MouseDown"]
      [] mouse_event = "CursorMoved" ->
            IF prev_interaction \in {"MouseDown", "MouseDragged", "MouseTapped"}
            THEN [prev |-> "MouseDragged", interaction |-> "MouseDragged"]
            ELSE [prev |-> prev_interaction, interaction |-> "None"]
      [] mouse_event = "ButtonReleased" ->
            LET p == CASE prev_interaction = "MouseDown" -> "MouseTapped"
                       [] prev_interaction = "MouseDragged" -> "MouseReleased"
                       [] OTHER -> "None"
            IN [prev |-> p, interaction |-> p]
      [] OTHER -> [prev |-> prev_interaction, interaction |-> "None"]

\* get_mouse_interaction: the new value of *prev_interaction and the result
get_mouse_interaction(prev_interaction, mouse_event) ==
    CASE mouse_event = "ButtonPressed" -> [prev |-> "MouseDown", interaction |-> "MouseDown"]
      [] mouse_event = "CursorMoved" ->
            IF prev_interaction \in {"MouseDown", "MouseDragged"}
            THEN [prev |-> "MouseDragged", interaction |-> "MouseDragged"]
            ELSE [prev |-> prev_interaction, interaction |-> "None"]
      [] mouse_event = "ButtonReleased" ->
            LET p == CASE prev_interaction = "MouseDown" -> "MouseTapped"
                       [] prev_interaction = "MouseDragged" -> "MouseReleased"
                       [] OTHER -> "None"
            IN [prev |-> p, interaction |-> p]
      [] OTHER -> [prev |-> prev_interaction, interaction |-> "None"]

ActionChanged(action) == [type |-> "ActionChanged", action |-> action]

\* cursor_dragged that gives up the live action it has no arm for
cursor_dragged_reset(st, sel) ==
    CASE st.action.kind = "Panning" -> << [type |-> "Translated"] >>
      [] st.action.kind = "MovingSelection" -> << [type |-> "MoveSelection"] >>
      [] st.action.kind = "DrawingSelection" -> << [type |-> "NewSelection", selection |-> sel] >>
      [] OTHER -> << ActionChanged([st.action EXCEPT !.kind = "None"]) >>

\* cursor_dragged; sel is the value of State::get_selection for the rectangle
cursor_dragged(st, sel) ==
    CASE st.action.kind = "Panning" -> << [type |-> "Translated"] >>
      [] st.action.kind = "MovingSelection" -> << [type |-> "MoveSelection"] >>
      [] st.action.kind = "DrawingSelection" -> << [type |-> "NewSelection", selection |-> sel] >>
      [] OTHER -> <<>>

CanvasMessages(st, messages) == [kind |-> "MolCanvas", st |-> st, messages |-> messages]

\* message_from_tool_action: the application message, and st with the
\* identifiers drawn while building it marked as in use
message_from_tool_action(st, tool_action, hover, sel) ==
    CASE tool_action.kind = "None" -> CanvasMessages(st, << ActionChanged(Action("None")) >>)
      [] tool_action.kind = "CursorDragged" -> CanvasMessages(st, cursor_dragged(st, sel))
      [] tool_action.kind = "ClickSelect" ->
            CanvasMessages(st,
                << ActionChanged(Action("MovingSelection")) >>
                \o (IF ~Selection_contains(st.selection, hover)
                    THEN << [type |-> "NewSelection", selection |-> Selection_from(hover)] >>
                    ELSE <<>>))
      [] tool_action.kind = "DragSelectStart" ->
            CanvasMessages(st, << ActionChanged(Action("DrawingSelection")) >>)
      [] tool_action.kind = "DragSelectFinish" ->
            CanvasMessages(st, IF st.action.kind = "DrawingSelection"
                               THEN << ActionChanged(Action("None")) >> ELSE <<>>)
      [] tool_action.kind = "StartPan" -> CanvasMessages(st, << ActionChanged(Action("Panning")) >>)
      [] tool_action.kind = "StartMove" ->
            CanvasMessages(st, << ActionChanged(Action("MovingSelection")) >>)
      [] tool_action.kind = "Erase" ->
            CanvasMessages(st,
                << ActionChanged(Action("Erasing")) >>
                \o (CASE hover.kind = "Atom" ->
                            << [type |-> "DeleteAtom", mol |-> hover.mol, atom |-> hover.id] >>
                      [] hover.kind = "Molecule" ->
                            << [type |-> "DeleteMolecule", mol |-> hover.mol] >>
                      [] hover.kind = "Bond" ->
                            << [type |-> "DeleteBond", mol |-> hover.mol, bond |-> hover.id] >>
                      [] OTHER -> <<>>))
      [] tool_action.kind = "BondStart" ->
            CASE hover.kind = "Atom" ->
                    IF hover.mol \notin DOMAIN st.molecules
                       \/ hover.id \notin DOMAIN st.molecules[hover.mol].atoms
                    THEN [kind |-> "Error"]
                    ELSE CanvasMessages(st,
                            << ActionChanged(DrawingBond(hover.mol, hover.id, tool_action.arg)) >>)
              [] hover.kind = "Bond" ->
                    IF hover.mol \notin DOMAIN st.molecules
                       \/ hover.id \notin DOMAIN st.molecules[hover.mol].bonds
                    THEN [kind |-> "Error"]
                    ELSE LET bond == st.molecules[hover.mol].bonds[hover.id]
                         IN CanvasMessages(st,
                              CASE bond.bond_type = "Normal1" /\ tool_action.arg = "Normal1" ->
                                      << [type |-> "ChangeBondType", mol |-> hover.mol,
                                          bond |-> hover.id, bond_type |-> "Normal2"] >>
                                [] bond.bond_type \in {"Wedge", "Dash"}
                                   /\ tool_action.arg = bond.bond_type ->
                                      << [type |-> "FlipBond", mol |-> hover.mol, bond |-> hover.id] >>
                                [] OTHER ->
                                      << [type |-> "ChangeBondType", mol |-> hover.mol,
                                          bond |-> hover.id, bond_type |-> tool_action.arg] >>)
              [] OTHER ->
                    CanvasMessages(UseAtom(UseMol(st, MoleculeId_new(st)), AtomId_new(st)),
                        << ActionChanged(DrawingBond(MoleculeId_new(st), AtomId_new(st),
                                                     tool_action.arg)),
                           [type |-> "AddMoleculeWithAtom", mol |-> MoleculeId_new(st),
                            atom |-> AtomId_new(st), label |-> ""] >>)
      [] tool_action.kind = "BondFinish" ->
            IF st.action.kind # "DrawingBond" THEN CanvasMessages(st, <<>>)
            ELSE IF hover.kind = "Atom" /\ hover.id # st.action.atom_id
                 THEN IF hover.mol = st.action.molecule_id
                      THEN CanvasMessages(st,
                             << [type |-> "NewBond", mol |-> st.action.molecule_id,
                                 atom |-> st.action.atom_id, atom2 |-> hover.id,
                                 bond_type |-> st.action.bond_type] >>)
                      ELSE CanvasMessages(st,
                             << [type |-> "ConnectMolecules", mol |-> st.action.molecule_id,
                                 atom |-> st.action.atom_id, mol2 |-> hover.mol,
                                 atom2 |-> hover.id, bond_type |-> st.action.bond_type] >>)
                 ELSE CanvasMessages(st,
                        << [type |-> "FinishBond", mol |-> st.action.molecule_id,
                            atom |-> st.action.atom_id, bond_type |-> st.action.bond_type] >>)
      [] tool_action.kind = "Rename" ->
            IF hover.kind = "Atom"
            THEN [kind |-> "TextInputSpawn", molecule_id |-> hover.mol, atom_id |-> hover.id,
                  value |-> IF hover.mol \in DOMAIN st.molecules
                               /\ hover.id \in DOMAIN st.molecules[hover.mol].atoms
                            THEN st.molecules[hover.mol].atoms[hover.id].label
                            ELSE ""]
            ELSE [kind |-> "TextInputSubmit"]
      [] tool_action.kind = "AtomDraw" ->
            IF hover.kind = "Atom"
            THEN CanvasMessages(st, << [type |-> "RelabelAtom", mol |-> hover.mol,
                                        atom |-> hover.id, label |-> tool_action.arg] >>)
            ELSE CanvasMessages(UseAtom(UseMol(st, MoleculeId_new(st)), AtomId_new(st)),
                    << [type |-> "AddMoleculeWithAtom", mol |-> MoleculeId_new(st),
                        atom |-> AtomId_new(st), label |-> tool_action.arg] >>)

\* tool_action_from_event
tool_action_from_event(st, interaction, event, hover) ==
    CASE event \in {"ButtonPressed", "CursorMoved", "ButtonReleased", "OtherMouse"} ->
            Tool_action(st.tool, interaction, st.selection, hover)
      [] event = "Enter" -> ToolAction("Rename")
      [] event = "Delete" -> ToolAction("Erase")
      [] OTHER -> ToolAction("None")

\* ------------------------------------------------------------------ state
\* last: the most recent message that edits the document, the molecules it
\* was applied to and what the molecule operation returned; events: the
\* number of events handled; args, result: the arguments and the value of the
\* function a specification of one function applies
VARIABLES molecules, selection, tool, action, prev_interaction, text_input, crashed, last, events, args, result

vars == <<molecules, selection, tool, action, prev_interaction, text_input, crashed, last, events, args, result>>

NullMol == [atoms |-> EmptyMap, bonds |-> EmptyMap]

NoInput == [open |-> FALSE, value |-> "", molecule_id |-> 0, atom_id |-> 0]

NoOp == [op |-> "None", mol |-> 0, id |-> 0, mol2 |-> 0, mols |-> {}, pre |-> NullMol,
         pre2 |-> NullMol, home |-> NullMol, ret |-> <<>>, err |-> FALSE, x |-> {}, y |-> {}]

MolAtomIds(mol) ==
    (DOMAIN mol.atoms) \cup UNION {Range(atom_ids(mol.bonds[b])) : b \in DOMAIN mol.bonds}

\* every identifier some part of the program state (or of the record of the
\* last edit) holds
UsedIds ==
    LET mols == {molecules[m] : m \in DOMAIN molecules}
                \cup {last.pre, last.pre2, last.home} \cup Range(last.ret)
    IN [atoms |-> (UNION {MolAtomIds(mol) : mol \in mols}
                   \cup {action.atom_id, text_input.atom_id, last.id} \cup last.x \cup last.y
                   \cup {selection[i].id : i \in {j \in DOMAIN selection : selection[j].kind = "Atom"}})
                  \ {0},
        bonds |-> (UNION {DOMAIN mol.bonds : mol \in mols} \cup {last.id}
                   \cup {selection[i].id : i \in {j \in DOMAIN selection : selection[j].kind = "Bond"}})
                  \ {0},
        mols |-> ((DOMAIN molecules) \cup last.mols
                  \cup {action.molecule_id, text_input.molecule_id, last.mol, last.mol2}
                  \cup {selection[i].mol : i \in DOMAIN selection})
                 \ {0}]

St == [molecules |-> molecules, selection |-> selection, tool |-> tool, action |-> action,
       used |-> UsedIds, ret |-> [mol |-> NullMol, ret |-> <<>>]]

MoleculeOf(st, m) == IF m \in DOMAIN st.molecules THEN st.molecules[m] ELSE NullMol

EditTypes == {"AddMoleculeWithAtom", "AddAtom", "FinishBond", "NewBond", "ChangeBondType",
              "FlipBond", "ConnectMolecules", "RelabelAtom", "DeleteMolecule", "DeleteAtom",
              "DeleteBond"}

\* the record of message msg applied to st with result r; full: with the
\* molecules before and after
Record(st, msg, r, full) ==
    LET base == [NoOp EXCEPT !.op = msg.type, !.mol = msg.mol, !.err = r.err]
        whole == IF full
                 THEN [base EXCEPT !.mols = DOMAIN st.molecules, !.pre = MoleculeOf(st, msg.mol),
                                   !.home = r.st.ret.mol, !.ret = r.st.ret.ret]
                 ELSE base
        merged == last.op = "ConnectMolecules" /\ ~last.err /\ last.id = msg.bond
    IN CASE msg.type = "DeleteAtom" -> [whole EXCEPT !.id = msg.atom]
         [] msg.type = "DeleteBond" ->
               [whole EXCEPT !.id = msg.bond,
                             !.x = IF merged THEN last.x ELSE {},
                             !.y = IF merged THEN last.y ELSE {}]
         [] msg.type = "ConnectMolecules" ->
               [base EXCEPT !.id = BondId_new(st),
                            !.x = DOMAIN MoleculeOf(st, msg.mol).atoms,
                            !.y = DOMAIN MoleculeOf(st, msg.mol2).atoms]
         [] OTHER -> [NoOp EXCEPT !.op = "Edit", !.err = r.err]

\* MolCanvas::default, Application::new
Init ==
    /\ molecules = EmptyMap
    /\ selection = <<>>
    /\ tool = Tool("Cursor")
    /\ action = Action("None")
    /\ prev_interaction = "None"
    /\ text_input = NoInput
    /\ crashed = FALSE
    /\ last = NoOp
    /\ events = 0
    /\ args = <<>>
    /\ result = <<>>

Dangling(mol) ==
    \E b \in DOMAIN mol.bonds : ~(Range(atom_ids(mol.bonds[b])) \subseteq DOMAIN mol.atoms)

HoverError == [kind |-> "Error", mol |-> 0, id |-> 0]

\* the values State::get_hovered can return: nothing, or one entity of the
\* document, or an error when a bond under the pointer has a missing endpoint
HoverTargets(st) ==
    {NoHover}
    \cup (IF \E m \in DOMAIN st.molecules : Dangling(st.molecules[m]) THEN {HoverError} ELSE {})
    \cup {SelMolecule(m) : m \in DOMAIN st.molecules}
    \cup UNION {{SelAtom(m, a) : a \in DOMAIN st.molecules[m].atoms} : m \in DOMAIN st.molecules}
    \cup UNION {{SelBond(m, b) : b \in DOMAIN st.molecules[m].bonds} : m \in DOMAIN st.molecules}

\* the orders in which Molecule::delete_atom can meet the attached bonds
BondOrders(st, messages) ==
    IF \E i \in DOMAIN messages :
          /\ messages[i].type = "DeleteAtom"
          /\ messages[i].mol \in DOMAIN st.molecules
    THEN LET msg == messages[CHOOSE i \in DOMAIN messages : messages[i].type = "DeleteAtom"]
         IN Orders(attached_bonds(st.molecules[msg.mol], msg.atom))
    ELSE {<<>>}

\* Application::update, Message::MolCanvas: an error becomes Message::Error,
\* on which the application panics
Updated(st, messages, r, full) ==
    LET edits == SelectSeq(messages, LAMBDA msg : msg.type \in EditTypes)
    IN /\ molecules' = r.st.molecules
       /\ selection' = r.st.selection
       /\ tool' = r.st.tool
       /\ action' = r.st.action
       /\ crashed' = r.err
       /\ last' = IF edits = <<>> THEN last ELSE Record(st, Head(edits), r, full)

\* api: the step belongs to SpecApi, which records the molecules before and
\* after and does not count against MaxEvents
CanvasUpdate(st, messages, api) ==
    \E order \in BondOrders(st, messages) :
        \E r \in {update(st, messages, order)} :
            Updated(st, messages, r, api)

\* handle_event followed by Application::update of the message it returns
HandleEvent(event, hover, sel, api) ==
    /\ ~crashed
    /\ api \/ events < MaxEvents
    /\ events' = events + 1
    /\ UNCHANGED <<args, result>>
    /\ IF hover = HoverError
       THEN /\ crashed' = TRUE
            /\ UNCHANGED <<molecules, selection, tool, action, prev_interaction, text_input, last>>
       ELSE \E st \in {St} : \E mi \in {get_mouse_interaction(prev_interaction, event)} :
            \E message \in {message_from_tool_action(
                                st, tool_action_from_event(st, mi.interaction, event, hover),
                                hover, sel)} :
               /\ prev_interaction' = mi.prev
               /\ CASE message.kind = "MolCanvas" ->
                          /\ CanvasUpdate(message.st, message.messages, api)
                          /\ UNCHANGED text_input
                    [] message.kind = "TextInputSpawn" ->
                          /\ text_input' = [open |-> TRUE, value |-> message.value,
                                            molecule_id |-> message.molecule_id,
                                            atom_id |-> message.atom_id]
                          /\ UNCHANGED <<molecules, selection, tool, action, crashed, last>>
                    [] message.kind = "TextInputSubmit" ->
                          /\ text_input' = NoInput
                          /\ UNCHANGED <<molecules, selection, tool, action, crashed, last>>
                    [] OTHER ->
                          /\ crashed' = TRUE
                          /\ UNCHANGED <<molecules, selection, tool, action, text_input, last>>

ButtonPressed == \E hover \in HoverTargets(St) : HandleEvent("ButtonPressed", hover, <<>>, FALSE)

CursorMoved == \E hover \in HoverTargets(St) : HandleEvent("CursorMoved", hover, <<>>, FALSE)

ButtonReleased == \E hover \in HoverTargets(St) : HandleEvent("ButtonReleased", hover, <<>>, FALSE)

KeyDelete == \E hover \in HoverTargets(St) : HandleEvent("Delete", hover, <<>>, FALSE)

\* the buttons of the toolbar that are pressed
EditTools == {Tool("Cursor"), ToolBond("Normal1"), ToolBond("Wedge"), Tool("Erase"), Tool("C")}

\* Application::update, Message::Toolbar
ToolbarPressed ==
    /\ ~crashed
    /\ events < MaxEvents
    /\ events' = events + 1
    /\ \E t \in EditTools : \E st \in {St} :
          CanvasUpdate(st, << [type |-> "ToolChanged", tool |-> t] >>, FALSE)
    /\ UNCHANGED <<prev_interaction, text_input, args, result>>

Next ==
    \/ ButtonPressed
    \/ CursorMoved
    \/ ButtonReleased
    \/ KeyDelete
    \/ ToolbarPressed

Spec == Init /\ [][Next]_vars

\* --------------------------------------------------------------- geometry
\* Coordinates and lengths are whole numbers of half pixels, which holds every
\* corner and every width of the cases below exactly; an angle is a number of
\* quarter turns.
ATOM_PADDING == 3

MOLECULE_PADDING == 3

BOND_PADDING == 3

BOND_LENGTH == 30

BOND_WIDTH == 1

BOND_OFFSETS == 2

H_BOND_WIDTH == 3

WEDGE_END_WIDTH == 4

DASH_END_WIDTH == 4

\* a number of pixels in half pixels
Px(n) == 2 * n

Plus(p, v) == <<p[1] + v[1], p[2] + v[2]>>

Minus(p, q) == <<p[1] - q[1], p[2] - q[2]>>

Rectangle(x, y, width, height) == [x |-> x, y |-> y, width |-> width, height |-> height]

\* Rectangle::contains of iced: the left and top sides belong to the rectangle
Rectangle_contains(rect, point) ==
    /\ rect.x <= point[1] /\ point[1] < rect.x + rect.width
    /\ rect.y <= point[2] /\ point[2] < rect.y + rect.height

\* Rectangle::expand of iced
Rectangle_expand(rect, padding) ==
    Rectangle(rect.x - padding, rect.y - padding,
              rect.width + 2 * padding, rect.height + 2 * padding)

\* the angle atan(4/3), of cosine 3/5 and sine 4/5: no number of quarter
\* turns, it is written 5 and the angle back -5; it turns the vectors whose
\* coordinates are multiples of 5 into vectors of whole coordinates
ATAN_4_3 == 5

\* Transform::rotation(angle) applied to v
Rotation(angle, v) ==
    CASE angle = 0 -> v
      [] angle = 1 -> <<-v[2], v[1]>>
      [] angle = 2 -> <<-v[1], -v[2]>>
      [] angle = 3 -> <<v[2], -v[1]>>
      [] angle = ATAN_4_3 -> <<(3 * v[1] - 4 * v[2]) \div 5, (4 * v[1] + 3 * v[2]) \div 5>>
      [] angle = -ATAN_4_3 -> <<(3 * v[1] + 4 * v[2]) \div 5, (3 * v[2] - 4 * v[1]) \div 5>>

\* the angle of Transform::inverse
Inverse(angle) == IF angle \in {ATAN_4_3, -ATAN_4_3} THEN -angle ELSE (4 - angle) % 4

Bounds_new(top_left, size, angle) == [offset |-> top_left, size |-> size, angle |-> angle]

\* Bounds::transform applied to a point
Bounds_transform(bounds, point) == Plus(Rotation(bounds.angle, point), bounds.offset)

Bounds_add_padding(bounds, padding) ==
    [bounds EXCEPT !.offset = Minus(bounds.offset, Rotation(bounds.angle, <<padding, padding>>)),
                   !.size = <<bounds.size[1] + 2 * padding, bounds.size[2] + 2 * padding>>]

Bounds_points(bounds) ==
    << Bounds_transform(bounds, <<0, 0>>),
       Bounds_transform(bounds, <<bounds.size[1], 0>>),
       Bounds_transform(bounds, <<bounds.size[1], bounds.size[2]>>),
       Bounds_transform(bounds, <<0, bounds.size[2]>>) >>

\* twice Bounds::center
Bounds_center(bounds) ==
    Plus(Rotation(bounds.angle, bounds.size), Plus(bounds.offset, bounds.offset))

Bounds_contains(bounds, point) ==
    Rectangle_contains(Rectangle(0, 0, bounds.size[1], bounds.size[2]),
                       Rotation(Inverse(bounds.angle), Minus(point, bounds.offset)))

Bounds_from(rectangle) ==
    Bounds_new(<<rectangle.x, rectangle.y>>, <<rectangle.width, rectangle.height>>, 0)

\* Add<Vector> for Bounds
Bounds_add(bounds, vector) == [bounds EXCEPT !.offset = Plus(bounds.offset, vector)]

\* the closure expand_bounds of Bounds::union
expand_bounds(corners, point) ==
    [min |-> IF point[1] < corners.min[1] THEN <<point[1], corners.min[2]>>
             ELSE IF point[2] < corners.min[2] THEN <<corners.min[1], point[2]>>
             ELSE corners.min,
     max |-> IF point[1] > corners.max[1] THEN <<point[1], corners.max[2]>>
             ELSE IF point[2] > corners.max[2] THEN <<corners.max[1], point[2]>>
             ELSE corners.max]

RECURSIVE expand_all(_, _)
expand_all(corners, points) ==
    IF points = <<>> THEN corners
    ELSE expand_all(expand_bounds(corners, Head(points)), Tail(points))

\* variant: the corners start from the origin
Bounds_union_origin(self, bounds) ==
    LET points == Bounds_points(self) \o Bounds_points(bounds)
        corners == expand_all([min |-> <<0, 0>>, max |-> <<0, 0>>], points)
    IN Bounds_from(Rectangle(corners.min[1], corners.min[2],
                             corners.max[1] - corners.min[1], corners.max[2] - corners.min[2]))

Bounds_union(self, bounds) ==
    LET points == Bounds_points(self) \o Bounds_points(bounds)
        corners == expand_all([min |-> Head(points), max |-> Head(points)], Tail(points))
    IN Bounds_from(Rectangle(corners.min[1], corners.min[2],
                             corners.max[1] - corners.min[1], corners.max[2] - corners.min[2]))

Bounds_intersects(bounds, rect) ==
    LET points == Range(Bounds_points(bounds))
    IN /\ \E point \in points : point[1] > rect.x
       /\ \E point \in points : point[2] > rect.y
       /\ \E point \in points : point[1] < rect.x + rect.width
       /\ \E point \in points : point[2] < rect.y + rect.height

Bounds_is_contained(bounds, rect) ==
    LET points == Range(Bounds_points(bounds))
    IN /\ ~ \E point \in points : point[1] < rect.x
       /\ ~ \E point \in points : point[2] < rect.y
       /\ ~ \E point \in points : point[1] > rect.x + rect.width
       /\ ~ \E point \in points : point[2] > rect.y + rect.height

\* ------------------------------------------------------- placed molecules
\* Molecule with the fields the graph operations above leave out: the
\* position of every atom, the position of the molecule and its bounds.
\* The labels are empty, so that Label::bounds is Rectangle::default: the
\* bounds of a label with tokens come from the font.
Atom_new(label, position) == [label |-> label, position |-> position]

Atom_bounds(atom) ==
    Bounds_add(Bounds_from(Rectangle_expand(Rectangle(0, 0, 0, 0), Px(ATOM_PADDING))),
               atom.position)

\* Atom::bond_start of an atom with an empty label
bond_start(atom, end) == atom.position

\* the length of a vector along an axis
Length(v) ==
    IF v[2] = 0 THEN (IF v[1] < 0 THEN -v[1] ELSE v[1])
    ELSE (IF v[2] < 0 THEN -v[2] ELSE v[2])

\* atan(direction.y / direction.x), plus a half turn when direction.x < 0,
\* of a vector along an axis
Angle(direction) ==
    CASE direction[1] > 0 -> 0
      [] direction[1] < 0 -> 2
      [] direction[2] > 0 -> 1
      [] OTHER -> 3

\* the width of a bond in pixels
Bond_width(bond_type) ==
    CASE bond_type = "Normal1" -> BOND_WIDTH
      [] bond_type = "Normal2" -> BOND_OFFSETS + BOND_WIDTH
      [] bond_type = "Normal3" -> 2 * BOND_OFFSETS + BOND_WIDTH
      [] bond_type = "Hydrogen" -> H_BOND_WIDTH
      [] bond_type = "Wedge" -> WEDGE_END_WIDTH
      [] OTHER -> DASH_END_WIDTH

\* Bond::bounds of a bond along an axis; err: AtomMissing
Bond_bounds(bond, atoms) ==
    IF bond.start \notin DOMAIN atoms \/ bond.end \notin DOMAIN atoms
    THEN [err |-> TRUE, bounds |-> Bounds_new(<<0, 0>>, <<0, 0>>, 0)]
    ELSE LET start == bond_start(atoms[bond.start], atoms[bond.end].position)
             end == bond_start(atoms[bond.end], atoms[bond.start].position)
             direction == Minus(end, start)
             length == Length(direction)
             unit_normal == <<direction[2] \div length, (-direction[1]) \div length>>
             width == Bond_width(bond.bond_type)
             offset == Plus(start, <<unit_normal[1] * width, unit_normal[2] * width>>)
         IN [err |-> FALSE,
             bounds |-> Bounds_add_padding(
                            Bounds_new(offset, <<length, Px(width)>>, Angle(direction)),
                            Px(BOND_PADDING))]

\* twice Bond::center
Bond_center(bond, atoms) ==
    Plus(bond_start(atoms[bond.start], atoms[bond.end].position),
         bond_start(atoms[bond.end], atoms[bond.start].position))

\* the members of a set of numbers from the least to the greatest
Ascending(S) ==
    CHOOSE s \in Orders(S) : \A i \in DOMAIN s : \A j \in DOMAIN s : i < j => s[i] < s[j]

RECURSIVE union_all(_, _, _)
union_all(bounds, atoms, ids) ==
    IF ids = <<>> THEN bounds
    ELSE union_all(Bounds_union(bounds, Atom_bounds(atoms[Head(ids)])), atoms, Tail(ids))

\* Molecule::compute_bounds: the new local_bounds
compute_bounds(atoms) ==
    LET ids == Ascending(DOMAIN atoms)
    IN Bounds_add_padding(
           IF ids = <<>> THEN Bounds_new(<<0, 0>>, <<0, 0>>, 0)
           ELSE union_all(Atom_bounds(atoms[Head(ids)]), atoms, ids),
           Px(MOLECULE_PADDING))

Molecule_bounds(mol) == Bounds_add(mol.local_bounds, mol.position)

\* Molecule::atoms_at: the atoms it yields
atoms_at(mol, canvas_position) ==
    {a \in DOMAIN mol.atoms :
        Bounds_contains(Bounds_add(Atom_bounds(mol.atoms[a]), mol.position), canvas_position)}

\* Molecule::bonds_at: the bonds it yields, or the error of Bond::bounds
bonds_at(mol, canvas_position) ==
    [err |-> \E b \in DOMAIN mol.bonds : Bond_bounds(mol.bonds[b], mol.atoms).err,
     bonds |-> {b \in DOMAIN mol.bonds :
                   /\ ~Bond_bounds(mol.bonds[b], mol.atoms).err
                   /\ Bounds_contains(Bounds_add(Bond_bounds(mol.bonds[b], mol.atoms).bounds,
                                                 mol.position), canvas_position)}]

\* State::molecules_at: the molecules it yields
molecules_at(mols, position) ==
    {m \in DOMAIN mols : Bounds_contains(Molecule_bounds(mols[m]), position)}

\* the square of twice bounds.center().distance(point)
Rating(bounds, point) ==
    LET d == Minus(Bounds_center(bounds), Plus(point, point))
    IN d[1] * d[1] + d[2] * d[2]

\* f32::MAX as a rating
F32_MAX == -1

\* a comparison that every rating passes
Lower_always(rating, candidate_rating) == TRUE

\* rating < candidate_rating
Lower(rating, candidate_rating) == candidate_rating = F32_MAX \/ rating < candidate_rating

\* the candidate of State::get_hovered and its rating; offset: twice the
\* vector from the point to the position of the candidate
NoCandidate == [err |-> FALSE, hover |-> NoHover, offset |-> <<0, 0>>, rating |-> F32_MAX]

RECURSIVE hover_atoms(_, _, _, _, _)
hover_atoms(c, molecule_id, mol, p, ids) ==
    IF ids = <<>> THEN c
    ELSE LET atom_id == Head(ids)
             rating == Rating(Bounds_add(Atom_bounds(mol.atoms[atom_id]), mol.position), p)
             position == Plus(mol.atoms[atom_id].position, mol.position)
         IN hover_atoms(IF Lower(rating, c.rating)
                        THEN [c EXCEPT !.rating = rating,
                                       !.hover = SelAtom(molecule_id, atom_id),
                                       !.offset = Minus(Plus(position, position), Plus(p, p))]
                        ELSE c,
                        molecule_id, mol, p, Tail(ids))

RECURSIVE hover_bonds(_, _, _, _, _)
hover_bonds(c, molecule_id, mol, p, ids) ==
    IF ids = <<>> THEN c
    ELSE LET bond_id == Head(ids)
             rating == Rating(Bounds_add(Bond_bounds(mol.bonds[bond_id], mol.atoms).bounds,
                                         mol.position), p)
             position == Plus(Bond_center(mol.bonds[bond_id], mol.atoms),
                              Plus(mol.position, mol.position))
         IN hover_bonds(IF Lower(rating, c.rating)
                        THEN [c EXCEPT !.rating = rating,
                                       !.hover = SelBond(molecule_id, bond_id),
                                       !.offset = Minus(position, Plus(p, p))]
                        ELSE c,
                        molecule_id, mol, p, Tail(ids))

\* the identifiers of the entries of one kind, and of one molecule, in order
IdsOf(order, kind, molecule_id) ==
    LET entries == SelectSeq(order, LAMBDA e : e.kind = kind /\ e.mol = molecule_id)
    IN [i \in DOMAIN entries |-> entries[i].id]

\* the body of the loop of State::get_hovered for one molecule
hover_molecule(c, molecule_id, mol, p, order) ==
    LET rating == Rating(Molecule_bounds(mol), p)
        atoms == hover_atoms(c, molecule_id, mol, p, IdsOf(order, "Atom", molecule_id))
        bonds == hover_bonds(atoms, molecule_id, mol, p, IdsOf(order, "Bond", molecule_id))
    IN IF bonds_at(mol, p).err THEN [atoms EXCEPT !.err = TRUE]
       ELSE IF Lower(rating, bonds.rating) /\ bonds.hover.kind \in {"Molecule", "None"}
       THEN [bonds EXCEPT !.rating = rating,
                          !.hover = SelMolecule(molecule_id),
                          !.offset = Minus(Plus(mol.position, mol.position), Plus(p, p))]
       ELSE bonds

RECURSIVE hover_molecules(_, _, _, _, _)
hover_molecules(c, mols, p, ids, order) ==
    IF ids = <<>> \/ c.err THEN c
    ELSE hover_molecules(hover_molecule(c, Head(ids), mols[Head(ids)], p, order),
                         mols, p, Tail(ids), order)

\* what State::get_hovered can meet at the point
HoverCandidates(mols, p) ==
    UNION {{SelMolecule(m)}
           \cup {SelAtom(m, a) : a \in atoms_at(mols[m], p)}
           \cup {SelBond(m, b) : b \in bonds_at(mols[m], p).bonds} : m \in molecules_at(mols, p)}

\* State::get_hovered; order: the order in which the hash maps yield the
\* molecules at the point, the atoms at the point and the bonds at the point
get_hovered(mols, canvas_position, order) ==
    LET ids == SelectSeq(order, LAMBDA e : e.kind = "Molecule")
    IN hover_molecules(NoCandidate, mols, canvas_position,
                       [i \in DOMAIN ids |-> ids[i].mol], order)

\* State::get_selection without the test of the whole molecule
RECURSIVE get_selection_atoms(_, _, _)
get_selection_atoms(mols, rect, order) ==
    IF order = <<>> THEN <<>>
    ELSE LET molecule_id == Head(order)
             mol == mols[molecule_id]
             atoms == SelectSeq(Ascending(DOMAIN mol.atoms),
                                LAMBDA a : Bounds_is_contained(
                                               Bounds_add(Atom_bounds(mol.atoms[a]), mol.position),
                                               rect))
         IN [i \in DOMAIN atoms |-> SelAtom(molecule_id, atoms[i])]
            \o get_selection_atoms(mols, rect, Tail(order))

\* State::get_selection; order: the order in which the hash map yields the
\* molecules
RECURSIVE get_selection(_, _, _)
get_selection(mols, rect, order) ==
    IF order = <<>> THEN <<>>
    ELSE LET molecule_id == Head(order)
             mol == mols[molecule_id]
             atoms == SelectSeq(Ascending(DOMAIN mol.atoms),
                                LAMBDA a : Bounds_is_contained(
                                               Bounds_add(Atom_bounds(mol.atoms[a]), mol.position),
                                               rect))
             found == IF Bounds_is_contained(Molecule_bounds(mol), rect)
                      THEN << SelMolecule(molecule_id) >>
                      ELSE IF Bounds_intersects(Molecule_bounds(mol), rect)
                      THEN [i \in DOMAIN atoms |-> SelAtom(molecule_id, atoms[i])]
                      ELSE <<>>
         IN found \o get_selection(mols, rect, Tail(order))

\* the editor as Init leaves it, and its variables but prev_interaction
Fresh ==
    /\ molecules = EmptyMap
    /\ selection = <<>>
    /\ tool = Tool("Cursor")
    /\ action = Action("None")
    /\ text_input = NoInput
    /\ crashed = FALSE
    /\ last = NoOp
    /\ events = 0

editor == <<molecules, selection, tool, action, text_input, crashed, last, events>>

\* -------------------------------------------------------------- SpecMouse
\* The pointer events the canvas hands to get_mouse_interaction, in every
\* order; args is the sequence of the events so far and result the
\* interaction the last one was turned into.
MouseEvents == {"ButtonPressed", "CursorMoved", "ButtonReleased"}

InitMouse ==
    /\ Fresh
    /\ prev_interaction = "None"
    /\ args = <<>>
    /\ result = "None"

\* tool_action_from_event, Event::Mouse
Mouse(mouse_event) ==
    /\ \E mi \in {get_mouse_interaction(prev_interaction, mouse_event)} :
          /\ prev_interaction' = mi.prev
          /\ result' = mi.interaction
    /\ args' = Append(args, mouse_event)
    /\ UNCHANGED editor

MousePressed ==
    /\ Len(args) < MaxLog
    /\ Mouse("ButtonPressed")

MouseMoved ==
    /\ Len(args) < MaxLog
    /\ Mouse("CursorMoved")

MouseReleased ==
    /\ Len(args) < MaxLog
    /\ Mouse("ButtonReleased")

NextMouse == MousePressed \/ MouseMoved \/ MouseReleased

SpecMouse == InitMouse /\ [][NextMouse]_vars

\* --------------------------------------------------------------- SpecTool
\* Tool::action applied to every tool, every interaction, and the selections
\* and hover targets over two molecules with an atom and a bond.
Entities ==
    {SelMolecule(1), SelMolecule(2), SelAtom(1, 1), SelAtom(2, 1), SelBond(1, 1)}

\* the sequences without repetition of at most n members of S
Lists(S, n) ==
    UNION {{f \in [1..k -> S] : \A i \in 1..k : \A j \in 1..k : f[i] = f[j] => i = j} :
           k \in 0..n}

InitTool ==
    /\ Fresh
    /\ prev_interaction = "None"
    /\ args \in [tool : Tools, interaction : MouseInteractions,
                  selection : Lists(Entities, MaxSelected), hover : {NoHover} \cup Entities]
    /\ result = <<>>

ToolActionOf ==
    /\ result = <<>>
    /\ result' = << Tool_action(args.tool, args.interaction, args.selection, args.hover) >>
    /\ UNCHANGED <<editor, prev_interaction, args>>

NextTool == ToolActionOf

SpecTool == InitTool /\ [][NextTool]_vars

\* -------------------------------------------------------------- SpecHover
\* State::get_hovered applied to a document of at most two molecules, each
\* drawn in one of four shapes with bonds of BOND_LENGTH along the axes, at
\* every point of a grid; result is what it returns for one iteration order
\* of the hash maps.  Positions are in pixels here.
Shapes ==
    {[atoms |-> << <<0, 0>> >>, bonds |-> <<>>],
     [atoms |-> << <<0, 0>>, <<BOND_LENGTH, 0>> >>, bonds |-> << <<1, 2>> >>],
     [atoms |-> << <<0, 0>>, <<0, BOND_LENGTH>> >>, bonds |-> << <<2, 1>> >>],
     [atoms |-> << <<0, 0>>, <<BOND_LENGTH, 0>>, <<BOND_LENGTH, BOND_LENGTH>> >>,
      bonds |-> << <<1, 2>>, <<2, 3>> >>]}

MoleculePositions == {<<0, 0>>, <<0, 4>>, <<16, 15>>}

ProbePoints == {-8, 0, 2, 15, 30} \X {0, 2, 10, 15, 30}

\* the molecule of a shape at a position, with identifiers from base on
Placed(shape, position, base) ==
    LET atoms == [a \in {base + i : i \in DOMAIN shape.atoms} |->
                     Atom_new("", <<Px(shape.atoms[a - base][1]), Px(shape.atoms[a - base][2])>>)]
    IN [atoms |-> atoms,
        bonds |-> [b \in {base + i : i \in DOMAIN shape.bonds} |->
                      Bond(base + shape.bonds[b - base][1], base + shape.bonds[b - base][2],
                           "Normal1")],
        local_bounds |-> compute_bounds(atoms),
        position |-> <<Px(position[1]), Px(position[2])>>]

Scenes ==
    UNION {{[m \in 1..k |-> Placed(f[m][1], f[m][2], 3 * (m - 1))] :
            f \in [1..k -> Shapes \X MoleculePositions]} : k \in 0..2}

\* the orders in which the hash maps can yield the candidates: the molecules
\* in any order, the atoms in any order, the bonds in any order
HoverOrders(candidates) ==
    {mo \o ao \o bo :
        mo \in Orders({e \in candidates : e.kind = "Molecule"}),
        ao \in Orders({e \in candidates : e.kind = "Atom"}),
        bo \in Orders({e \in candidates : e.kind = "Bond"})}

InitHover ==
    /\ Fresh
    /\ prev_interaction = "None"
    /\ args \in [mols : Scenes, p : {<<Px(q[1]), Px(q[2])>> : q \in ProbePoints}]
    /\ result = <<>>

Hovered ==
    /\ result = <<>>
    /\ \E order \in HoverOrders(HoverCandidates(args.mols, args.p)) :
          result' = << get_hovered(args.mols, args.p, order) >>
    /\ UNCHANGED <<editor, prev_interaction, args>>

NextHover == Hovered

SpecHover == InitHover /\ [][NextHover]_vars

\* ------------------------------------------------------------- SpecSelect
\* State::get_selection applied to the documents of SpecHover and to the
\* rectangle between every two points of a grid.
DragPoints == {-7, 3, 37} \X {-7, 3, 37}

\* cursor_dragged, Action::DrawingSelection: the rectangle
DragRect(start, canvas_position) ==
    Rectangle(IF start[1] < canvas_position[1] THEN start[1] ELSE canvas_position[1],
              IF start[2] < canvas_position[2] THEN start[2] ELSE canvas_position[2],
              Length(<<start[1] - canvas_position[1], 0>>),
              Length(<<start[2] - canvas_position[2], 0>>))

InitSelect ==
    /\ Fresh
    /\ prev_interaction = "None"
    /\ args \in [mols : Scenes,
                  start : {<<Px(q[1]), Px(q[2])>> : q \in DragPoints},
                  p : {<<Px(q[1]), Px(q[2])>> : q \in DragPoints}]
    /\ result = <<>>

Selected ==
    /\ result = <<>>
    /\ \E order \in Orders(DOMAIN args.mols) :
          result' = << get_selection(args.mols, DragRect(args.start, args.p), order) >>
    /\ UNCHANGED <<editor, prev_interaction, args>>

NextSelect == Selected

SpecSelect == InitSelect /\ [][NextSelect]_vars

\* --------------------------------------------------------------- SpecDrag
\* A cursor move in the MouseDragged phase, for every tool and every live
\* action, over a document of one molecule: the tool action, the messages of
\* cursor_dragged and what MolCanvas::update makes of them.
DragActions ==
    {Action(k) : k \in {"None", "Panning", "MovingSelection", "DrawingSelection", "Erasing"}}
    \cup {DrawingBond(1, 1, "Normal1")}

DragScenes == {mols \in Scenes : Len(mols) = 1 /\ mols[1].position = <<0, 0>>}

\* the molecules without their positions and bounds
Graphs(mols) ==
    [m \in DOMAIN mols |->
        [atoms |-> [a \in DOMAIN mols[m].atoms |-> Atom(mols[m].atoms[a].label)],
         bonds |-> mols[m].bonds]]

\* the canvas with the document, the tool and the live action of args
DragState == [St EXCEPT !.molecules = Graphs(args.mols), !.tool = args.tool,
                        !.action = args.action]

InitDrag ==
    /\ Fresh
    /\ prev_interaction \in {"MouseDown", "MouseDragged"}
    /\ args \in [tool : Tools, action : DragActions, mols : DragScenes,
                  start : {<<Px(q[1]), Px(q[2])>> : q \in DragPoints},
                  p : {<<Px(q[1]), Px(q[2])>> : q \in DragPoints}]
    /\ result = <<>>

\* handle_event of a cursor move, and MolCanvas::update of its messages
Dragged ==
    /\ result = <<>>
    /\ \E st \in {DragState} : \E mi \in {get_mouse_interaction(prev_interaction, "CursorMoved")} :
       \E order \in HoverOrders(HoverCandidates(args.mols, args.p)) :
       \E hover \in {get_hovered(args.mols, args.p, order).hover} :
       \E tool_action \in {tool_action_from_event(st, mi.interaction, "CursorMoved", hover)} :
       \E message \in {message_from_tool_action(
                           st, tool_action, hover,
                           get_selection(args.mols, DragRect(args.start, args.p),
                                         Ascending(DOMAIN args.mols)))} :
          /\ prev_interaction' = mi.prev
          /\ result' = << [tool_action |-> tool_action, messages |-> message.messages,
                           r |-> update(message.st, message.messages, <<>>)] >>
    /\ UNCHANGED <<editor, args>>

NextDrag == Dragged

SpecDrag == InitDrag /\ [][NextDrag]_vars

\* --------------------------------------------------------------- SpecBond
\* The release of the button with a bond tool, for every live action and
\* every hover target, over the documents of SpecHover: the messages of
\* BondFinish and what MolCanvas::update makes of them.
BondDocuments == {Graphs(mols) : mols \in Scenes}

\* the live actions: a bond drawn from an atom of the document, and the rest
BondActions(mols) ==
    {Action(k) : k \in {"None", "Panning", "MovingSelection", "DrawingSelection", "Erasing"}}
    \cup UNION {{DrawingBond(m, a, t) : a \in DOMAIN mols[m].atoms, t \in {"Normal1", "Wedge"}} :
                m \in DOMAIN mols}

InitBond ==
    /\ molecules \in BondDocuments
    /\ selection = <<>>
    /\ tool \in {ToolBond(t) : t \in ToolBondTypes}
    /\ action \in BondActions(molecules)
    /\ prev_interaction \in {"MouseDown", "MouseDragged"}
    /\ text_input = NoInput
    /\ crashed = FALSE
    /\ last = NoOp
    /\ events = 0
    /\ args \in [hover : HoverTargets(St)]
    /\ result = <<>>

\* handle_event of the release, and MolCanvas::update of its messages
Released ==
    /\ result = <<>>
    /\ \E st \in {St} : \E mi \in {get_mouse_interaction(prev_interaction, "ButtonReleased")} :
       \E tool_action \in {tool_action_from_event(st, mi.interaction, "ButtonReleased",
                                                  args.hover)} :
       \E message \in {message_from_tool_action(st, tool_action, args.hover, <<>>)} :
          /\ prev_interaction' = mi.prev
          /\ result' = << [tool_action |-> tool_action, messages |-> message.messages,
                           r |-> update(message.st, message.messages, <<>>)] >>
    /\ UNCHANGED <<editor, args>>

NextBond == Released

SpecBond == InitBond /\ [][NextBond]_vars

\* ------------------------------------------------------------- SpecStroke
\* A press, a move or none, and a release with a bond tool on the empty
\* canvas, with the positions: result holds the start of the live action and
\* the molecules with their positions, the editor variables the rest.

\* the square root of a whole square
Sqrt(n) == CHOOSE r \in 0..n : r * r = n

\* variant: the direction is not brought to the length
fixed_length_unscaled(start, direction, length) == Plus(start, direction)

\* Bond::fixed_length, for the directions whose magnitude is a whole number
\* of half pixels; a magnitude is 0 here or at least a half pixel, so the
\* threshold of 0.0001 separates the same cases as 0
fixed_length(start, direction, length) ==
    LET magnitude == Sqrt(direction[1] * direction[1] + direction[2] * direction[2])
    IN IF magnitude > 0
       THEN Plus(start, <<(direction[1] * length) \div magnitude,
                          (direction[2] * length) \div magnitude>>)
       ELSE Plus(start, <<length, 0>>)

\* variant: the position of the canvas is taken as the position in the molecule
AtomPosition_from_canvas(molecule_position, canvas_position) == canvas_position

AtomPosition_from(molecule_position, canvas_position) ==
    Minus(canvas_position, molecule_position)

atom_position(mol, atom_id) == Plus(mol.atoms[atom_id].position, mol.position)

\* the molecules of the document graphs with their positions, after a message
\* that carries position: a molecule of placed and its atoms stay where they
\* are, Molecule::new puts a new molecule at position, and Molecule::add_atom
\* a new atom at AtomPosition::from of position
Positioned(placed, graphs, position) ==
    [m \in DOMAIN graphs |->
        LET known == m \in DOMAIN placed
            molecule_position == IF known THEN placed[m].position ELSE position
            atoms == [a \in DOMAIN graphs[m].atoms |->
                         Atom_new(graphs[m].atoms[a].label,
                                  IF known /\ a \in DOMAIN placed[m].atoms
                                  THEN placed[m].atoms[a].position
                                  ELSE AtomPosition_from(molecule_position, position))]
        IN [atoms |-> atoms, bonds |-> graphs[m].bonds,
            local_bounds |-> compute_bounds(atoms), position |-> molecule_position]]

StrokePoints ==
    {<<Px(q[1]), Px(q[2])>> :
        q \in {<<10, 10>>, <<40, 10>>, <<28, 34>>, <<10, 34>>, <<10, -20>>, <<-8, 10>>,
               <<-14, -22>>, <<13, 14>>}}

\* the pairs of points whose distance is a whole number of half pixels
Strokes ==
    {s \in [press : StrokePoints, release : StrokePoints, moved : BOOLEAN] :
        LET d == Minus(s.release, s.press)
        IN \E r \in 0..(d[1] * d[1] + d[2] * d[2]) : r * r = d[1] * d[1] + d[2] * d[2]}

InitStroke ==
    /\ molecules = EmptyMap
    /\ selection = <<>>
    /\ tool \in {ToolBond(t) : t \in ToolBondTypes}
    /\ action = Action("None")
    /\ prev_interaction = "None"
    /\ text_input = NoInput
    /\ crashed = FALSE
    /\ last = NoOp
    /\ events = 0
    /\ args \in Strokes
    /\ result = [stage |-> "start", start |-> <<0, 0>>, mols |-> EmptyMap]

\* handle_event of event at canvas_position and MolCanvas::update of its
\* messages; stage is the stage of the stroke the event ends
Stroke(event, canvas_position, stage) ==
    \E st \in {St} : \E mi \in {get_mouse_interaction(prev_interaction, event)} :
    \E order \in HoverOrders(HoverCandidates(result.mols, canvas_position)) :
    \E hover \in {get_hovered(result.mols, canvas_position, order).hover} :
    \E message \in {message_from_tool_action(
                        st, tool_action_from_event(st, mi.interaction, event, hover),
                        hover, <<>>)} :
    \E r \in {update(message.st, message.messages, <<>>)} :
    \E start \in {IF r.st.action.kind = "DrawingBond" /\ action.kind # "DrawingBond"
                   THEN IF hover.kind = "Atom"
                        THEN atom_position(result.mols[hover.mol], hover.id)
                        ELSE canvas_position
                   ELSE result.start} :
        /\ prev_interaction' = mi.prev
        /\ Updated(message.st, message.messages, r, FALSE)
        /\ result' = [stage |-> stage,
                      start |-> start,
                      mols |-> Positioned(result.mols, r.st.molecules,
                                          IF event = "ButtonReleased"
                                          THEN fixed_length(result.start,
                                                            Minus(canvas_position, result.start),
                                                            Px(BOND_LENGTH))
                                          ELSE canvas_position)]
        /\ UNCHANGED <<text_input, events, args>>

StrokePressed ==
    /\ result.stage = "start"
    /\ Stroke("ButtonPressed", args.press, "pressed")

StrokeMoved ==
    /\ result.stage = "pressed"
    /\ args.moved
    /\ Stroke("CursorMoved", args.release, "moved")

StrokeReleased ==
    /\ result.stage = IF args.moved THEN "moved" ELSE "pressed"
    /\ Stroke("ButtonReleased", args.release, "released")

NextStroke ==
    \/ StrokePressed
    \/ StrokeMoved
    \/ StrokeReleased

SpecStroke == InitStroke /\ [][NextStroke]_vars

\* ------------------------------------------------------------ SpecMissing
\* The operations of Molecule that change a molecule by an atom or a bond
\* identifier, on a molecule of the documents of SpecHover with an identifier
\* that is or is not in the molecule: result holds whether the operation
\* returned an error (one that returns () did not), and whether
\* MolCanvas::update did for the message that leads to the operation.
AtomOperations == {"rename_atom", "move_atom", "delete_atom"}

BondOperations == {"move_bond", "change_bond_type", "flip_bond", "delete_bond"}

\* the identifiers tried: those of the documents and one more
TriedIds == 1..7

InitMissing ==
    /\ molecules \in BondDocuments
    /\ selection = <<>>
    /\ tool = Tool("Cursor")
    /\ action = Action("None")
    /\ prev_interaction = "None"
    /\ text_input = NoInput
    /\ crashed = FALSE
    /\ last = NoOp
    /\ events = 0
    /\ args \in [op : AtomOperations \cup BondOperations, mol : DOMAIN molecules, id : TriedIds]
    /\ result = <<>>

\* the operation returned err, MolCanvas::update of messages from st returned
\* an error or not
Invoked(err, st, messages) ==
    /\ result = <<>>
    /\ \E order \in BondOrders(st, messages) :
          result' = << [err |-> err, update_err |-> update(st, messages, order).err] >>
    /\ UNCHANGED <<editor, prev_interaction, args>>

\* the live action and the selection with which Message::MoveSelection moves
\* the entity e alone
Moving(e) == [St EXCEPT !.action = Action("MovingSelection"), !.selection = << e >>]

RenameAtom ==
    /\ args.op = "rename_atom"
    /\ Invoked(rename_atom(molecules[args.mol], args.id, "N").err, St,
            << [type |-> "RelabelAtom", mol |-> args.mol, atom |-> args.id, label |-> "N"] >>)

MoveAtom ==
    /\ args.op = "move_atom"
    /\ Invoked(move_atom(molecules[args.mol], args.id).err,
            Moving(SelAtom(args.mol, args.id)), << [type |-> "MoveSelection"] >>)

MoveBond ==
    /\ args.op = "move_bond"
    /\ Invoked(move_bond(molecules[args.mol], args.id).err,
            Moving(SelBond(args.mol, args.id)), << [type |-> "MoveSelection"] >>)

ChangeBondType ==
    /\ args.op = "change_bond_type"
    /\ Invoked(FALSE, St,
            << [type |-> "ChangeBondType", mol |-> args.mol, bond |-> args.id,
                bond_type |-> "Normal2"] >>)

FlipBond ==
    /\ args.op = "flip_bond"
    /\ Invoked(FALSE, St,
            << [type |-> "FlipBond", mol |-> args.mol, bond |-> args.id] >>)

DeleteAtom ==
    /\ args.op = "delete_atom"
    /\ \E order \in Orders(attached_bonds(molecules[args.mol], args.id)) :
          Invoked(delete_atom(molecules[args.mol], args.id, order).err, St,
                  << [type |-> "DeleteAtom", mol |-> args.mol, atom |-> args.id] >>)

DeleteBond ==
    /\ args.op = "delete_bond"
    /\ Invoked(delete_bond(molecules[args.mol], args.id).err, St,
            << [type |-> "DeleteBond", mol |-> args.mol, bond |-> args.id] >>)

NextMissing ==
    \/ RenameAtom
    \/ MoveAtom
    \/ MoveBond
    \/ ChangeBondType
    \/ FlipBond
    \/ DeleteAtom
    \/ DeleteBond

SpecMissing == InitMissing /\ [][NextMissing]_vars

\* ---------------------------------------------------------------- SpecAdd
\* Molecule::add_atom and State::add_molecule_with_atom with the positions,
\* on the documents of SpecHover, with identifiers in use and not; the labels
\* are empty.

\* Molecule::new
Molecule_new_at(canvas_position, atom_id, label) ==
    LET atoms == atom_id :> Atom_new(label, <<0, 0>>)
    IN [atoms |-> atoms, bonds |-> EmptyMap, local_bounds |-> compute_bounds(atoms),
        position |-> canvas_position]

\* Molecule::add_atom: the insertion comes before the error
add_atom_at(mol, atom_id, label, canvas_position) ==
    LET position == AtomPosition_from(mol.position, canvas_position)
        atoms == Merge(mol.atoms, atom_id :> Atom_new(label, position))
    IN [mol |-> IF atom_id \in DOMAIN mol.atoms
                THEN [mol EXCEPT !.atoms = atoms]
                ELSE [mol EXCEPT !.atoms = atoms, !.local_bounds = compute_bounds(atoms)],
        err |-> atom_id \in DOMAIN mol.atoms]

\* State::add_molecule_with_atom: the insertion comes before the error
add_molecule_with_atom_at(mols, molecule_id, atom_id, label, position) ==
    [mols |-> Merge(mols, molecule_id :> Molecule_new_at(position, atom_id, label)),
     err |-> molecule_id \in DOMAIN mols]

AddPoints == {<<Px(q[1]), Px(q[2])>> : q \in {<<0, 0>>, <<16, 15>>, <<40, 10>>, <<-8, 30>>}}

InitAdd ==
    /\ Fresh
    /\ prev_interaction = "None"
    /\ args \in {a \in [op : {"add_atom", "add_molecule_with_atom"}, mols : Scenes,
                         molecule_id : 1..3, atom_id : TriedIds, position : AddPoints] :
                    a.op = "add_atom" => a.molecule_id \in DOMAIN a.mols}
    /\ result = <<>>

AddAtom ==
    /\ result = <<>>
    /\ args.op = "add_atom"
    /\ \E r \in {add_atom_at(args.mols[args.molecule_id], args.atom_id, "", args.position)} :
          result' = << [mols |-> [args.mols EXCEPT ![args.molecule_id] = r.mol],
                        err |-> r.err] >>
    /\ UNCHANGED <<editor, prev_interaction, args>>

AddMoleculeWithAtom ==
    /\ result = <<>>
    /\ args.op = "add_molecule_with_atom"
    /\ result' = << add_molecule_with_atom_at(args.mols, args.molecule_id, args.atom_id, "",
                                              args.position) >>
    /\ UNCHANGED <<editor, prev_interaction, args>>

NextAdd ==
    \/ AddAtom
    \/ AddMoleculeWithAtom

SpecAdd == InitAdd /\ [][NextAdd]_vars

\* ------------------------------------------------------------ SpecMessage
\* MolCanvas::update of one message, for every message that edits the
\* document, with identifiers of the document and others, and for
\* MoveSelection, NewSelection and ActionChanged, on the documents of SpecHover
\* with nothing or one molecule selected, a frame of the document in the
\* cache: result holds the document and the selection update leaves, whether
\* it returned an error, and whether the frame is still in the cache.
MessageMolecules == 1..3

MessageAtoms == {1, 2, 4, 7}

EditMessages ==
    {[type |-> "AddMoleculeWithAtom", mol |-> m, atom |-> a, label |-> "N"] :
        m \in MessageMolecules, a \in MessageAtoms}
    \cup {[type |-> "AddAtom", mol |-> m, atom |-> a, label |-> "N"] :
            m \in MessageMolecules, a \in MessageAtoms}
    \cup {[type |-> "FinishBond", mol |-> m, atom |-> a, bond_type |-> "Normal1"] :
            m \in MessageMolecules, a \in MessageAtoms}
    \cup {[type |-> "NewBond", mol |-> m, atom |-> a, atom2 |-> b, bond_type |-> "Normal1"] :
            m \in MessageMolecules, a \in MessageAtoms, b \in MessageAtoms}
    \cup {[type |-> "ChangeBondType", mol |-> m, bond |-> a, bond_type |-> "Normal2"] :
            m \in MessageMolecules, a \in MessageAtoms}
    \cup {[type |-> "FlipBond", mol |-> m, bond |-> a] :
            m \in MessageMolecules, a \in MessageAtoms}
    \cup {[type |-> "ConnectMolecules", mol |-> m, atom |-> a, mol2 |-> n, atom2 |-> b,
           bond_type |-> "Normal1"] :
            m \in MessageMolecules, a \in MessageAtoms, n \in MessageMolecules,
            b \in MessageAtoms}
    \cup {[type |-> "RelabelAtom", mol |-> m, atom |-> a, label |-> "N"] :
            m \in MessageMolecules, a \in MessageAtoms}
    \cup {[type |-> "DeleteMolecule", mol |-> m] : m \in MessageMolecules}
    \cup {[type |-> "DeleteAtom", mol |-> m, atom |-> a] :
            m \in MessageMolecules, a \in MessageAtoms}
    \cup {[type |-> "DeleteBond", mol |-> m, bond |-> a] :
            m \in MessageMolecules, a \in MessageAtoms}
    \cup {[type |-> "MoveSelection"], [type |-> "NewSelection", selection |-> <<>>],
          [type |-> "ActionChanged", action |-> Action("None")]}

\* whether the arm of msg in MolCanvas::update, entered in st and left with r,
\* reaches its self.cache.clear(): an arm that returns an error with `?` does
\* not, and the arms of NewSelection, ToolChanged and ActionChanged have none
cache_clear(st, msg, r) ==
    CASE msg.type \in {"NewSelection", "ToolChanged", "ActionChanged"} -> FALSE
      [] msg.type = "MoveSelection" -> st.action.kind = "MovingSelection" /\ ~r.err
      [] OTHER -> ~r.err

InitMessage ==
    /\ molecules \in BondDocuments
    /\ selection \in {<<>>} \cup {<< SelMolecule(m) >> : m \in DOMAIN molecules}
    /\ tool = Tool("Cursor")
    /\ action \in {Action("None"), Action("MovingSelection")}
    /\ prev_interaction = "None"
    /\ text_input = NoInput
    /\ crashed = FALSE
    /\ last = NoOp
    /\ events = 0
    /\ args \in EditMessages
    /\ result = <<>>

MessageUpdated ==
    /\ result = <<>>
    /\ \E st \in {St} : \E order \in BondOrders(st, << args >>) :
       \E r \in {update(st, << args >>, order)} :
          result' = << [molecules |-> r.st.molecules, selection |-> r.st.selection,
                        err |-> r.err, cached |-> ~cache_clear(st, args, r)] >>
    /\ UNCHANGED <<editor, prev_interaction, args>>

NextMessage == MessageUpdated

SpecMessage == InitMessage /\ [][NextMessage]_vars

\* -------------------------------------------------------------- SpecTwice
\* State::get_hovered and State::delete_atom, each run twice on the same
\* document with the same arguments: the two runs differ only in the order
\* in which the hash maps yield their entries, as they do when the
\* identifiers, which are random, differ.  result holds the two outcomes.
InitTwice ==
    /\ args \in [op : {"get_hovered"}, mols : Scenes,
                  p : {<<Px(q[1]), Px(q[2])>> : q \in ProbePoints}]
               \cup {a \in [op : {"delete_atom"}, mols : Scenes, molecule_id : 1..2,
                            atom_id : 1..6] :
                        /\ a.molecule_id \in DOMAIN a.mols
                        /\ a.atom_id \in DOMAIN a.mols[a.molecule_id].atoms}
    /\ molecules = Graphs(args.mols)
    /\ selection = <<>>
    /\ tool = Tool("Cursor")
    /\ action = Action("None")
    /\ prev_interaction = "None"
    /\ text_input = NoInput
    /\ crashed = FALSE
    /\ last = NoOp
    /\ events = 0
    /\ result = <<>>

HoveredTwice ==
    /\ result = <<>>
    /\ args.op = "get_hovered"
    /\ \E candidates \in {HoverCandidates(args.mols, args.p)} :
       \E order1 \in HoverOrders(candidates) : \E order2 \in HoverOrders(candidates) :
          result' = << [first |-> get_hovered(args.mols, args.p, order1).hover,
                        second |-> get_hovered(args.mols, args.p, order2).hover] >>
    /\ UNCHANGED <<editor, prev_interaction, args>>

DeletedTwice ==
    /\ result = <<>>
    /\ args.op = "delete_atom"
    /\ \E st \in {St} : \E bonds \in {attached_bonds(molecules[args.molecule_id], args.atom_id)} :
       \E order1 \in Orders(bonds) : \E order2 \in Orders(bonds) :
       \E r1 \in {State_delete_atom(st, args.molecule_id, args.atom_id, order1)} :
       \E r2 \in {State_delete_atom(st, args.molecule_id, args.atom_id, order2)} :
          result' = << [first |-> [molecules |-> r1.st.molecules, err |-> r1.err],
                        second |-> [molecules |-> r2.st.molecules, err |-> r2.err]] >>
    /\ UNCHANGED <<editor, prev_interaction, args>>

NextTwice ==
    \/ HoveredTwice
    \/ DeletedTwice

SpecTwice == InitTwice /\ [][NextTwice]_vars

\* ------------------------------------------------------------- SpecRename
\* The text input over the canvas: Enter pressed over the canvas, and the text
\* typed into the input, on a document of two molecules: C bonded to an
\* unlabelled atom, and O.
RenameDocument ==
    (1 :> [atoms |-> (1 :> Atom("C")) @@ (2 :> Atom("")),
           bonds |-> (1 :> Bond(1, 2, "Normal1"))])
    @@ (2 :> [atoms |-> (3 :> Atom("O")), bonds |-> EmptyMap])

Texts == {"N", "OH"}

InitRename ==
    /\ molecules = RenameDocument
    /\ selection = <<>>
    /\ tool \in {Tool("Cursor"), ToolBond("Normal1")}
    /\ action = Action("None")
    /\ prev_interaction = "None"
    /\ text_input = NoInput
    /\ crashed = FALSE
    /\ last = NoOp
    /\ events = 0
    /\ args = <<>>
    /\ result = <<>>

KeyEnter == \E hover \in HoverTargets(St) : HandleEvent("Enter", hover, <<>>, FALSE)

\* Application::update, Message::TextInputChange: the value is kept, then the
\* callback (Message::RelabelAtom) goes to the canvas
TextInputChanged(text) ==
    /\ ~crashed
    /\ events < MaxEvents
    /\ events' = events + 1
    /\ IF text_input.open
       THEN /\ text_input' = [text_input EXCEPT !.value = text]
            /\ \E st \in {St} :
                  CanvasUpdate(st, << [type |-> "RelabelAtom", mol |-> text_input.molecule_id,
                                       atom |-> text_input.atom_id, label |-> text] >>, FALSE)
       ELSE UNCHANGED <<molecules, selection, tool, action, text_input, crashed, last>>
    /\ UNCHANGED <<prev_interaction, args, result>>

TextInputChange ==
    /\ ~crashed
    /\ \E text \in Texts : TextInputChanged(text)

NextRename == KeyEnter \/ TextInputChange

SpecRename == InitRename /\ [][NextRename]_vars

\* the same with the edits of the document in between: the Delete key, and
\* the button pressed and released, for MaxEdits events
EditEnter ==
    /\ events < MaxEdits
    /\ KeyEnter

EditTextInputChange ==
    /\ events < MaxEdits
    /\ TextInputChange

EditDelete ==
    /\ events < MaxEdits
    /\ KeyDelete

EditButtonPressed ==
    /\ events < MaxEdits
    /\ ButtonPressed

EditButtonReleased ==
    /\ events < MaxEdits
    /\ ButtonReleased

NextRenameEdit ==
    \/ EditEnter
    \/ EditTextInputChange
    \/ EditDelete
    \/ EditButtonPressed
    \/ EditButtonReleased

SpecRenameEdit == InitRename /\ [][NextRenameEdit]_vars

\* ---------------------------------------------------------- SpecSelection
\* The events of the mouse and the Delete key on the document of SpecRename,
\* from every selection the editor can hold there, every tool and every live
\* action; args keeps the selection at the start.
RECURSIVE InSomeOrder(_)
InSomeOrder(S) ==
    IF S = {} THEN <<>>
    ELSE LET e == CHOOSE x \in S : TRUE IN <<e>> \o InSomeOrder(S \ {e})

\* what State::get_selection can return: whole molecules, and atoms of the
\* other molecules
DragSelections(mols) ==
    {InSomeOrder(S) :
        S \in {T \in SUBSET ({SelMolecule(m) : m \in DOMAIN mols}
                             \cup UNION {{SelAtom(m, a) : a \in DOMAIN mols[m].atoms} :
                                         m \in DOMAIN mols}) :
                  \A e \in T : e.kind = "Atom" => SelMolecule(e.mol) \notin T}}

\* the selections: of a rectangle, or the one entity clicked
Selections(mols) ==
    DragSelections(mols)
    \cup UNION {{<<SelBond(m, b)>> : b \in DOMAIN mols[m].bonds} : m \in DOMAIN mols}

InitSelection ==
    /\ molecules = RenameDocument
    /\ selection \in Selections(RenameDocument)
    /\ tool \in {Tool("Cursor"), ToolBond("Normal1"), Tool("Erase")}
    /\ action \in {Action("None"), Action("MovingSelection"), Action("DrawingSelection"),
                    DrawingBond(1, 1, "Normal1"), DrawingBond(2, 3, "Normal1")}
    /\ prev_interaction \in {"None", "MouseDown", "MouseDragged"}
    /\ text_input = NoInput
    /\ crashed = FALSE
    /\ last = NoOp
    /\ events = 0
    /\ args = [selection |-> selection]
    /\ result = <<>>

SelectionPressed ==
    /\ events < MaxSelectionEvents
    /\ ButtonPressed

SelectionMoved ==
    /\ events < MaxSelectionEvents
    /\ \E hover \in HoverTargets(St) : \E sel \in DragSelections(molecules) :
          HandleEvent("CursorMoved", hover, sel, FALSE)

SelectionReleased ==
    /\ events < MaxSelectionEvents
    /\ ButtonReleased

SelectionDelete ==
    /\ events < MaxSelectionEvents
    /\ KeyDelete

NextSelection ==
    \/ SelectionPressed
    \/ SelectionMoved
    \/ SelectionReleased
    \/ SelectionDelete

SpecSelection == InitSelection /\ [][NextSelection]_vars

\* --------------------------------------------------------------- SpecHeld
\* The left button and the cursor, inside and outside the bounds of the
\* canvas, on the document of SpecRename.  args.held: the button is down;
\* result: the event handled last and the interaction handle_event made of it
\* ("Ignored" when the cursor was outside the bounds).
InitHeld ==
    /\ molecules = RenameDocument
    /\ selection \in {<<>>, <<SelMolecule(1)>>}
    /\ tool = Tool("Cursor")
    /\ action = Action("None")
    /\ prev_interaction = "None"
    /\ text_input = NoInput
    /\ crashed = FALSE
    /\ last = NoOp
    /\ events = 0
    /\ args = [held |-> FALSE]
    /\ result = <<>>

\* handle_event of a mouse event with the cursor outside the bounds: line 27
Outside(event) ==
    /\ result' = << [event |-> event, inside |-> FALSE, interaction |-> "Ignored",
                     messages |-> <<>>] >>
    /\ UNCHANGED <<molecules, selection, tool, action, prev_interaction, text_input, crashed, last>>

\* handle_event of a mouse event with the cursor inside the bounds, and
\* Application::update of its message
Inside(event) ==
    \E hover \in HoverTargets(St) \ {HoverError} :
    \E st \in {St} : \E mi \in {get_mouse_interaction(prev_interaction, event)} :
    \E message \in {message_from_tool_action(
                        st, tool_action_from_event(st, mi.interaction, event, hover),
                        hover, <<>>)} :
       /\ message.kind = "MolCanvas"
       /\ prev_interaction' = mi.prev
       /\ result' = << [event |-> event, inside |-> TRUE, interaction |-> mi.interaction,
                        messages |-> message.messages] >>
       /\ CanvasUpdate(message.st, message.messages, FALSE)
       /\ UNCHANGED text_input

HeldEvent(event, held) ==
    /\ ~crashed
    /\ events < MaxHeldEvents
    /\ events' = events + 1
    /\ args' = [held |-> held]
    /\ (Outside(event) \/ Inside(event))

HeldPressed ==
    /\ ~args.held
    /\ HeldEvent("ButtonPressed", TRUE)

HeldMoved ==
    /\ ~crashed
    /\ HeldEvent("CursorMoved", args.held)

HeldReleased ==
    /\ args.held
    /\ HeldEvent("ButtonReleased", FALSE)

NextHeld == HeldPressed \/ HeldMoved \/ HeldReleased

SpecHeld == InitHeld /\ [][NextHeld]_vars

\* -------------------------------------------------------------- SpecUnion
\* Bounds::union of two boxes: any of two offsets, four sizes and five angles
Boxes ==
    {Bounds_new(offset, size, angle) :
        offset \in {<<0, 0>>, <<20, -10>>},
        size \in {<<0, 0>>, <<10, 10>>, <<20, 10>>, <<10, 30>>},
        angle \in {0, 1, 2, 3, ATAN_4_3}}

InitUnion ==
    /\ Fresh
    /\ prev_interaction = "None"
    /\ args \in [self : Boxes, bounds : Boxes]
    /\ result = <<>>

Union ==
    /\ result = <<>>
    /\ result' = << Bounds_union(args.self, args.bounds) >>
    /\ UNCHANGED <<editor, prev_interaction, args>>

NextUnion == Union

SpecUnion == InitUnion /\ [][NextUnion]_vars

\* ------------------------------------------------------------- SpecScroll
\* The wheel: handle_scrolling and the arm of Message::Scaled in
\* MolCanvas::update.  The scaling and the pan translation are fractions
\* <<numerator, denominator>> in lowest terms with a positive denominator, so
\* the arithmetic is exact (the rounding of f32 is not modelled); result holds
\* the view, and the wheel event before with the view it found.
RECURSIVE Gcd(_, _)
Gcd(a, b) == IF b = 0 THEN a ELSE Gcd(b, a % b)

Abs(n) == IF n < 0 THEN -n ELSE n

Frac(n, d) ==
    LET g == Gcd(Abs(n), Abs(d))
    IN IF d < 0 THEN <<(-n) \div g, (-d) \div g>> ELSE <<n \div g, d \div g>>

FracAdd(a, b) == Frac(a[1] * b[2] + b[1] * a[2], a[2] * b[2])

FracSub(a, b) == Frac(a[1] * b[2] - b[1] * a[2], a[2] * b[2])

FracMul(a, b) == Frac(a[1] * b[1], a[2] * b[2])

FracDiv(a, b) == Frac(a[1] * b[2], a[2] * b[1])

FracLess(a, b) == a[1] * b[2] < b[1] * a[2]

\* f32::clamp
clamp(a, min, max) == IF FracLess(a, min) THEN min ELSE IF FracLess(max, a) THEN max ELSE a

MIN_SCALING == Frac(1, 10)

MAX_SCALING == Frac(5, 1)

NoMessage == [type |-> "None"]

\* variant: the new scaling is not clamped
handle_scrolling_unclamped(scaling, translation, cursor_to_center, y) ==
    [type |-> "Scaled", scaling |-> FracMul(scaling, Frac(30 + y, 30)), some |-> FALSE,
     translation |-> translation]

\* cursor_to_center: cursor.position_from(bounds.center()), <<>> when the
\* cursor is not available; y: the vertical scroll delta
handle_scrolling(scaling, translation, cursor_to_center, y) ==
    IF \/ y < 0 /\ FracLess(MIN_SCALING, scaling)
       \/ y > 0 /\ FracLess(scaling, MAX_SCALING)
    THEN LET old_scaling == scaling
             new == clamp(FracMul(scaling, Frac(30 + y, 30)), MIN_SCALING, MAX_SCALING)
             factor == FracSub(new, old_scaling)
         IN [type |-> "Scaled", scaling |-> new, some |-> cursor_to_center # <<>>,
             translation |->
                 IF cursor_to_center # <<>>
                 THEN [i \in 1..2 |->
                          FracSub(translation[i],
                                  FracDiv(FracMul(Frac(cursor_to_center[i], 1), factor),
                                          FracMul(old_scaling, old_scaling)))]
                 ELSE translation]
    ELSE NoMessage

\* the scroll deltas and the places of the cursor from the center of the
\* canvas (none: the cursor is not available)
ScrollDeltas == {-60, -15, 0, 30, 150}

Cursors == {<<>>, <<0, 0>>, <<90, -30>>}

InitScroll ==
    /\ Fresh
    /\ prev_interaction = "None"
    /\ args = <<>>
    /\ result = [scaling |-> Frac(1, 1), translation |-> <<Frac(0, 1), Frac(0, 1)>>,
                 scrolls |-> 0, before |-> <<>>]

\* handle_event of Event::Mouse(WheelScrolled), and MolCanvas::update of
\* Message::Scaled when there is one
WheelScrolled ==
    /\ result.scrolls < MaxScrolls
    /\ \E y \in ScrollDeltas : \E cursor_to_center \in Cursors :
       \E message \in {handle_scrolling(result.scaling, result.translation,
                                         cursor_to_center, y)} :
          result' = [scaling |-> IF message.type = "Scaled" THEN message.scaling
                                 ELSE result.scaling,
                     translation |-> IF message.type = "Scaled" /\ message.some
                                     THEN message.translation
                                     ELSE result.translation,
                     scrolls |-> result.scrolls + 1,
                     before |-> << [y |-> y, cursor_to_center |-> cursor_to_center,
                                   scaling |-> result.scaling,
                                   translation |-> result.translation,
                                   message |-> message] >>]
    /\ UNCHANGED <<editor, prev_interaction, args>>

NextScroll == WheelScrolled

SpecScroll == InitScroll /\ [][NextScroll]_vars

\* ----------------------------------------------------------- SpecMolecule
\* The operations of Molecule with the positions and the label directions:
\* an atom is [label, position, direction], a molecule [atoms, bonds,
\* local_bounds, position].  The box of an atom is that of an empty label.
Atom_placed(label, position, direction) ==
    [label |-> label, position |-> position, direction |-> direction]

\* whether a neighbour at the vector d from the atom blocks the direction:
\* the component of the unit vector is beyond 0.1; a neighbour at the place
\* of the atom has a unit vector of NaN, which blocks nothing
blocks(d, direction) ==
    LET square == d[1] * d[1] + d[2] * d[2]
    IN /\ square > 0
       /\ CASE direction = "Right" -> d[1] > 0 /\ 100 * d[1] * d[1] > square
            [] direction = "Left" -> d[1] < 0 /\ 100 * d[1] * d[1] > square
            [] direction = "Down" -> d[2] > 0 /\ 100 * d[2] * d[2] > square
            [] direction = "Up" -> d[2] < 0 /\ 100 * d[2] * d[2] > square

\* variant: Up and Down change places in the order of preference
label_direction_down_first(mol, atom_id) ==
    LET blocked == {direction \in {"Right", "Left", "Up", "Down"} :
                       \E n \in neighbours(mol, atom_id) :
                          blocks(Minus(mol.atoms[n].position, mol.atoms[atom_id].position),
                                 direction)}
    IN IF "Right" \notin blocked THEN "Right"
       ELSE IF "Left" \notin blocked THEN "Left"
       ELSE IF "Down" \notin blocked THEN "Down"
       ELSE IF "Up" \notin blocked THEN "Up"
       ELSE "Right"

\* the direction Molecule::update_atom_label_direction finds (lines 442-476)
label_direction(mol, atom_id) ==
    LET blocked == {direction \in {"Right", "Left", "Up", "Down"} :
                       \E n \in neighbours(mol, atom_id) :
                          blocks(Minus(mol.atoms[n].position, mol.atoms[atom_id].position),
                                 direction)}
    IN IF "Right" \notin blocked THEN "Right"
       ELSE IF "Left" \notin blocked THEN "Left"
       ELSE IF "Up" \notin blocked THEN "Up"
       ELSE IF "Down" \notin blocked THEN "Down"
       ELSE "Right"

update_atom_label_direction_at(mol, atom_id) ==
    IF update_atom_label_direction(mol, atom_id).err THEN [mol |-> mol, err |-> TRUE]
    ELSE [mol |-> [mol EXCEPT !.atoms[atom_id].direction = label_direction(mol, atom_id)],
          err |-> FALSE]

\* update_atom_label_direction for the atoms of a list in turn, up to the
\* first error
RECURSIVE update_directions_at(_, _)
update_directions_at(mol, atoms) ==
    IF atoms = <<>> THEN [mol |-> mol, err |-> FALSE]
    ELSE LET r == update_atom_label_direction_at(mol, Head(atoms))
         IN IF r.err THEN r ELSE update_directions_at(r.mol, Tail(atoms))

computed(mol) == [mol EXCEPT !.local_bounds = compute_bounds(mol.atoms)]

\* a molecule of split_fragments: the atoms and the bonds of graph at the
\* position of the source, with its bounds computed
fragment_at(graph, position) ==
    [atoms |-> graph.atoms, bonds |-> graph.bonds,
     local_bounds |-> compute_bounds(graph.atoms), position |-> position]

\* variant: a detached molecule is placed at the origin
split_fragments_origin(mol, touched) ==
    LET r == split_fragments(mol, touched)
    IN [mol |-> fragment_at(r.mol, mol.position),
        ret |-> [i \in DOMAIN r.ret |-> fragment_at(r.ret[i], <<0, 0>>)],
        err |-> r.err]

split_fragments_at(mol, touched) ==
    LET r == split_fragments(mol, touched)
    IN [mol |-> fragment_at(r.mol, mol.position),
        ret |-> [i \in DOMAIN r.ret |-> fragment_at(r.ret[i], mol.position)],
        err |-> r.err]

add_bond_at(mol, start, end, bond_type, bond_id) ==
    LET m1 == [mol EXCEPT !.bonds = Merge(mol.bonds, bond_id :> Bond(start, end, bond_type))]
        r == update_directions_at(m1, <<start, end>>)
    IN IF bond_id \in DOMAIN mol.bonds THEN [mol |-> m1, ret |-> <<>>, err |-> TRUE]
       ELSE IF r.err THEN [mol |-> r.mol, ret |-> <<>>, err |-> TRUE]
       ELSE [mol |-> computed(r.mol), ret |-> <<>>, err |-> FALSE]

delete_atom_at(mol, atom_id, order) ==
    IF atom_id \notin DOMAIN mol.atoms THEN [mol |-> mol, ret |-> <<>>, err |-> TRUE]
    ELSE LET m1 == [mol EXCEPT !.atoms = Restrict(mol.atoms, DOMAIN mol.atoms \ {atom_id})]
             connected_atoms == get_directly_connected(m1, atom_id, order)
             m2 == [m1 EXCEPT !.bonds = Restrict(m1.bonds, DOMAIN m1.bonds \ Range(order))]
             r == update_directions_at(m2, connected_atoms)
         IN IF r.err THEN [mol |-> r.mol, ret |-> <<>>, err |-> TRUE]
            ELSE split_fragments_at(r.mol, connected_atoms)

delete_bond_at(mol, bond_id) ==
    IF bond_id \notin DOMAIN mol.bonds THEN [mol |-> mol, ret |-> <<>>, err |-> TRUE]
    ELSE LET bond_atoms == atom_ids(mol.bonds[bond_id])
             m1 == [mol EXCEPT !.bonds = Restrict(mol.bonds, DOMAIN mol.bonds \ {bond_id})]
             r == update_directions_at(m1, bond_atoms)
         IN IF r.err THEN [mol |-> r.mol, ret |-> <<>>, err |-> TRUE]
            ELSE split_fragments_at(r.mol, bond_atoms)

\* Atom::translate
translate(atom, translation) == [atom EXCEPT !.position = Plus(atom.position, translation)]

move_atom_at(mol, atom_id, translation) ==
    IF atom_id \notin DOMAIN mol.atoms THEN [mol |-> mol, ret |-> <<>>, err |-> TRUE]
    ELSE LET m1 == [mol EXCEPT !.atoms[atom_id] = translate(mol.atoms[atom_id], translation)]
             r == update_directions_at(
                      m1, <<atom_id>> \o Ascending(neighbours(m1, atom_id)))
         IN IF r.err THEN [mol |-> r.mol, ret |-> <<>>, err |-> TRUE]
            ELSE [mol |-> computed(r.mol), ret |-> <<>>, err |-> FALSE]

move_bond_at(mol, bond_id, translation) ==
    IF bond_id \notin DOMAIN mol.bonds THEN [mol |-> mol, ret |-> <<>>, err |-> TRUE]
    ELSE LET bond == mol.bonds[bond_id]
         IN IF ~({bond.start, bond.end} \subseteq DOMAIN mol.atoms)
            THEN [mol |-> mol, ret |-> <<>>, err |-> TRUE]
            ELSE LET m1 == [mol EXCEPT !.atoms[bond.start] = translate(@, translation)]
                     m2 == [m1 EXCEPT !.atoms[bond.end] = translate(@, translation)]
                     affected_atoms == {bond.start, bond.end}
                                       \cup neighbours(m2, bond.start)
                                       \cup neighbours(m2, bond.end)
                     r == update_directions_at(m2, Ascending(affected_atoms))
                 IN IF r.err THEN [mol |-> r.mol, ret |-> <<>>, err |-> TRUE]
                    ELSE [mol |-> computed(r.mol), ret |-> <<>>, err |-> FALSE]

\* variant: the atoms of the merged molecule keep their local positions
extend_untranslated(self, molecule) ==
    [self EXCEPT !.atoms = Merge(self.atoms, molecule.atoms),
                 !.bonds = Merge(self.bonds, molecule.bonds)]

extend_at(self, molecule) ==
    LET offset == Minus(molecule.position, self.position)
    IN [self EXCEPT
           !.atoms = Merge(self.atoms,
                           [a \in DOMAIN molecule.atoms |-> translate(molecule.atoms[a], offset)]),
           !.bonds = Merge(self.bonds, molecule.bonds),
           !.local_bounds = Bounds_union(self.local_bounds,
                                         Bounds_add(molecule.local_bounds, offset))]

\* the arm of Message::ConnectMolecules on a document of placed molecules:
\* molecule2 leaves the document, then molecule1 is looked up, extended and
\* bonded
connect_molecules_at(document, molecule_id1, atom_id1, molecule_id2, atom_id2, bond_type, bond_id) ==
    IF molecule_id2 \notin DOMAIN document THEN [document |-> document, err |-> TRUE]
    ELSE LET removed == Restrict(document, DOMAIN document \ {molecule_id2})
         IN IF molecule_id1 \notin DOMAIN removed THEN [document |-> removed, err |-> TRUE]
            ELSE LET r == add_bond_at(extend_at(removed[molecule_id1], document[molecule_id2]),
                                      atom_id1, atom_id2, bond_type, bond_id)
                 IN [document |-> [removed EXCEPT ![molecule_id1] = r.mol], err |-> r.err]

\* State::delete_atom on a document of placed molecules: the first detached
\* molecule is inserted and the insertion, of a new key, is taken for an error
State_delete_atom_at(document, molecule_id, atom_id, order) ==
    IF molecule_id \notin DOMAIN document THEN [document |-> document, err |-> TRUE]
    ELSE LET r == delete_atom_at(document[molecule_id], atom_id, order)
             left == IF is_empty(r.mol) THEN Restrict(document, DOMAIN document \ {molecule_id})
                     ELSE [document EXCEPT ![molecule_id] = r.mol]
         IN IF r.err THEN [document |-> [document EXCEPT ![molecule_id] = r.mol], err |-> TRUE]
            ELSE IF r.ret = <<>> THEN [document |-> left, err |-> FALSE]
            ELSE [document |-> Merge(left, NewId(DOMAIN document) :> Head(r.ret)), err |-> TRUE]

\* the detached molecules inserted under new identifiers
RECURSIVE insert_detached_at(_, _, _)
insert_detached_at(document, used, detached) ==
    IF detached = <<>> THEN document
    ELSE insert_detached_at(Merge(document, NewId(used) :> Head(detached)),
                            used \cup {NewId(used)}, Tail(detached))

\* State::delete_bond on a document of placed molecules
State_delete_bond_at(document, molecule_id, bond_id) ==
    IF molecule_id \notin DOMAIN document THEN [document |-> document, err |-> TRUE]
    ELSE LET r == delete_bond_at(document[molecule_id], bond_id)
         IN IF r.err THEN [document |-> [document EXCEPT ![molecule_id] = r.mol], err |-> TRUE]
            ELSE [document |-> insert_detached_at([document EXCEPT ![molecule_id] = r.mol],
                                                  DOMAIN document, r.ret),
                  err |-> FALSE]

\* Atom::rename keeps the direction of the label
rename_atom_at(mol, atom_id, text) ==
    IF atom_id \notin DOMAIN mol.atoms THEN [mol |-> mol, ret |-> <<>>, err |-> TRUE]
    ELSE [mol |-> computed([mol EXCEPT !.atoms[atom_id].label = text]), ret |-> <<>>,
          err |-> FALSE]

\* variant: the atoms move and the molecule stays
move_molecule_atoms(mol, translation) ==
    [mol EXCEPT !.atoms = [a \in DOMAIN mol.atoms |-> translate(mol.atoms[a], translation)]]

move_molecule(mol, translation) == [mol EXCEPT !.position = Plus(mol.position, translation)]

\* the places of the atoms in a molecule: one above at BOND_LENGTH, two to
\* the right on either side of the slope 0.1, and one on a diagonal
AtomPlaces ==
    {<<Px(q[1]), Px(q[2])>> :
        q \in {<<0, 0>>, <<0, -30>>, <<30, 2>>, <<30, 4>>, <<-30, -30>>}}

\* the bonds of the connected molecules of up to three atoms
BondShapes ==
    {<<>>, << <<1, 2>> >>, << <<1, 2>>, <<2, 3>> >>, << <<1, 2>>, <<1, 3>> >>,
     << <<1, 3>>, <<2, 3>> >>, << <<1, 2>>, <<2, 3>>, <<1, 3>> >>}

\* with_directions: every atom with the direction of its label
with_directions(mol) ==
    [mol EXCEPT !.atoms = [a \in DOMAIN mol.atoms |->
                              [mol.atoms[a] EXCEPT !.direction = label_direction(mol, a)]]]

\* the molecule of places (of atoms 1, 2, ...) and bonds (of shape) at position
Molecule_placed(places, shape, position, base) ==
    LET atoms == [a \in {base + i : i \in DOMAIN places} |->
                     Atom_placed("", places[a - base], "Right")]
    IN with_directions(
           [atoms |-> atoms,
            bonds |-> [b \in {base + i : i \in DOMAIN shape} |->
                          Bond(base + shape[b - base][1], base + shape[b - base][2], "Normal1")],
            local_bounds |-> compute_bounds(atoms),
            position |-> position])

\* a molecule of one atom bonded to three others, and the connected
\* molecules of one to three atoms, at (16,15)
PlacedMolecules ==
    {Molecule_placed(<< <<0, 0>>, <<Px(30), 0>>, <<0, Px(-30)>>, <<Px(-30), Px(-30)>> >>,
                     << <<1, 2>>, <<1, 3>>, <<1, 4>> >>, <<Px(16), Px(15)>>, 0)}
    \cup
    UNION {{Molecule_placed(places, shape, <<Px(16), Px(15)>>, 0) :
               places \in [1..n -> AtomPlaces],
               shape \in {s \in BondShapes :
                             /\ Len(s) >= n - 1
                             /\ n = 3 => Len(s) >= 2
                             /\ \A b \in DOMAIN s : s[b][1] <= n /\ s[b][2] <= n}} :
           n \in 1..3}

Translations == {<<0, Px(-30)>>, <<Px(-60), Px(2)>>}

\* the molecules merged into another: one atom, and two bonded atoms, with
\* identifiers of their own
MergedMolecules ==
    {Molecule_placed(<< <<0, 0>> >>, <<>>, <<Px(-14), Px(15)>>, 4),
     Molecule_placed(<< <<0, 0>>, <<0, Px(30)>> >>, << <<1, 2>> >>, <<Px(46), Px(-15)>>, 4)}

\* the calls: a, b: atom or bond identifiers, v: a translation, other: the
\* molecule merged
Calls(mol) ==
    LET none == <<0, 0>>
        call(op, a, b, v, other) ==
            [op |-> op, mol |-> mol, a |-> a, b |-> b, v |-> v, other |-> other]
        A == DOMAIN mol.atoms
        B == DOMAIN mol.bonds
    IN {call("add_bond", a, b, none, <<>>) : a \in A, b \in A}
       \cup {call("delete_atom", a, 0, none, <<>>) : a \in A}
       \cup {call("delete_bond", b, 0, none, <<>>) : b \in B}
       \cup {call("State::delete_atom", a, 0, none, <<>>) : a \in A}
       \cup {call("State::delete_bond", b, 0, none, <<>>) : b \in B}
       \cup {call("move_atom", a, 0, v, <<>>) : a \in A, v \in Translations}
       \cup {call("move_bond", b, 0, v, <<>>) : b \in B, v \in Translations}
       \cup {call("rename_atom", a, 0, none, <<>>) : a \in A}
       \cup {call("extend", 0, 0, none, other) : other \in MergedMolecules}
       \cup UNION {{call("connect", a, b, none, other) : a \in A, b \in DOMAIN other.atoms} :
                   other \in MergedMolecules}
       \cup {call("move_molecule", 0, 0, v, <<>>) : v \in Translations}

InitMolecule ==
    /\ Fresh
    /\ prev_interaction = "None"
    /\ args \in UNION {Calls(mol) : mol \in PlacedMolecules}
    /\ result = <<>>

\* the molecule as the call leaves it, and the molecules it returns
Called(op, r) ==
    /\ result = <<>>
    /\ args.op = op
    /\ result' = << r >>
    /\ UNCHANGED <<editor, prev_interaction, args>>

MoleculeAddBond ==
    /\ args.op = "add_bond"
    /\ Called("add_bond",
              add_bond_at(args.mol, args.a, args.b, "Normal1", NewId(DOMAIN args.mol.bonds)))

MoleculeDeleteAtom ==
    /\ args.op = "delete_atom"
    /\ \E order \in Orders(attached_bonds(args.mol, args.a)) :
          Called("delete_atom", delete_atom_at(args.mol, args.a, order))

MoleculeDeleteBond ==
    /\ args.op = "delete_bond"
    /\ Called("delete_bond", delete_bond_at(args.mol, args.a))

\* State::delete_atom and State::delete_bond in the document of the molecule
\* (1); touched: the atoms given to split_fragments
StateDeleteAtom ==
    /\ args.op = "State::delete_atom"
    /\ \E order \in Orders(attached_bonds(args.mol, args.a)) :
          \E r \in {State_delete_atom_at(1 :> args.mol, 1, args.a, order)} :
             Called("State::delete_atom",
                    [document |-> r.document, err |-> r.err,
                     touched |-> get_directly_connected(args.mol, args.a, order)])

StateDeleteBond ==
    /\ args.op = "State::delete_bond"
    /\ \E r \in {State_delete_bond_at(1 :> args.mol, 1, args.a)} :
          Called("State::delete_bond",
                 [document |-> r.document, err |-> r.err,
                  touched |-> atom_ids(args.mol.bonds[args.a])])

MoleculeMoveAtom ==
    /\ args.op = "move_atom"
    /\ Called("move_atom", move_atom_at(args.mol, args.a, args.v))

MoleculeMoveBond ==
    /\ args.op = "move_bond"
    /\ Called("move_bond", move_bond_at(args.mol, args.a, args.v))

MoleculeRenameAtom ==
    /\ args.op = "rename_atom"
    /\ Called("rename_atom", rename_atom_at(args.mol, args.a, "N"))

MoleculeExtend ==
    /\ args.op = "extend"
    /\ Called("extend", [mol |-> extend_at(args.mol, args.other), ret |-> <<>>, err |-> FALSE])

\* ConnectMolecules(1, a, 2, b) in the document of the molecule (1) and the
\* other (2)
MoleculeConnect ==
    /\ args.op = "connect"
    /\ \E r \in {connect_molecules_at((1 :> args.mol) @@ (2 :> args.other), 1, args.a, 2,
                                       args.b, "Normal1",
                                       NewId(DOMAIN args.mol.bonds \cup DOMAIN args.other.bonds))} :
          Called("connect", [mol |-> r.document[1], ret |-> <<>>, err |-> r.err,
                             document |-> r.document])

MoleculeMove ==
    /\ args.op = "move_molecule"
    /\ Called("move_molecule",
              [mol |-> move_molecule(args.mol, args.v), ret |-> <<>>, err |-> FALSE])

NextMolecule ==
    \/ MoleculeAddBond
    \/ MoleculeDeleteAtom
    \/ MoleculeDeleteBond
    \/ StateDeleteAtom
    \/ StateDeleteBond
    \/ MoleculeMoveAtom
    \/ MoleculeMoveBond
    \/ MoleculeRenameAtom
    \/ MoleculeExtend
    \/ MoleculeConnect
    \/ MoleculeMove

SpecMolecule == InitMolecule /\ [][NextMolecule]_vars

\* --------------------------------------------------------------- SpecMove
\* A move of the selection with the positions: a press that starts the move
\* (ClickSelect or StartMove) at a point of the canvas, the drags that follow
\* it, and one message of the view or the mode, on a document of two placed
\* molecules.
\* result holds the canvas, [document, selection, tool, action, translation,
\* scaling, err]; the canvas (from) and the point (p0) at the start of the
\* move, and the press that started it; the points of the drags since; the canvas before the last message
\* and that message.
MovingSelection(last_position) == [kind |-> "MovingSelection", last |-> last_position]

\* State::move_selection with the positions: the entries in turn, up to the
\* first error
RECURSIVE move_selection_at(_, _, _)
\* moved: the document with the entry before moved, r: the result of its move
move_selection_rest(moved, r, items, translation) ==
    IF r.err THEN [document |-> moved, err |-> TRUE]
    ELSE move_selection_at(moved, items, translation)

\* one entry of the selection moved in its molecule
move_item_at(molecule, item, translation) ==
    CASE item.kind = "Molecule" -> [mol |-> move_molecule(molecule, translation), err |-> FALSE]
      [] item.kind = "Atom" -> move_atom_at(molecule, item.id, translation)
      [] OTHER -> move_bond_at(molecule, item.id, translation)

move_selection_moved(document, item, r, items, translation) ==
    move_selection_rest([document EXCEPT ![item.mol] = r.mol], r, items, translation)

move_selection_at(document, items, translation) ==
    IF items = <<>> THEN [document |-> document, err |-> FALSE]
    ELSE IF Head(items).mol \notin DOMAIN document THEN [document |-> document, err |-> TRUE]
    ELSE move_selection_moved(document, Head(items),
                              move_item_at(document[Head(items).mol], Head(items), translation),
                              Tail(items), translation)

\* the canvas after move_selection returned r: `?` on an error, else
\* *last = position
selection_moved(cv, r, position) ==
    IF r.err THEN [cv EXCEPT !.document = r.document, !.err = TRUE]
    ELSE [cv EXCEPT !.document = r.document, !.action.last = position]

\* variant: the arm of Message::MoveSelection keeps the point of the press
MoveSelection_from_press(cv, position) ==
    IF cv.action.kind # "MovingSelection" THEN cv
    ELSE selection_moved(cv, move_selection_at(cv.document, cv.selection,
                                               Minus(position, cv.action.last)),
                         cv.action.last)

\* the arm of Message::MoveSelection in MolCanvas::update
MoveSelection_at(cv, position) ==
    IF cv.action.kind # "MovingSelection" THEN cv
    ELSE selection_moved(cv, move_selection_at(cv.document, cv.selection,
                                               Minus(position, cv.action.last)),
                         position)

\* variant: the arm of Message::NewSelection drops the molecules selected
NewSelection_dropping(cv, new) ==
    [cv EXCEPT !.selection = new,
               !.document = Restrict(cv.document,
                                     {m \in DOMAIN cv.document :
                                         SelMolecule(m) \notin Range(cv.selection)})]

\* the arm of Message::NewSelection, State::new_selection
NewSelection_at(cv, new) == [cv EXCEPT !.selection = new]

\* the arms of MoveSelection, NewSelection, ToolChanged, ActionChanged,
\* Translated and Scaled in MolCanvas::update
apply_at(cv, msg) ==
    CASE msg.type = "MoveSelection" -> MoveSelection_at(cv, msg.position)
      [] msg.type = "NewSelection" -> NewSelection_at(cv, msg.selection)
      [] msg.type = "ToolChanged" -> [cv EXCEPT !.tool = msg.tool]
      [] msg.type = "ActionChanged" -> [cv EXCEPT !.action = msg.action]
      [] msg.type = "Translated" -> [cv EXCEPT !.translation = msg.translation]
      [] msg.type = "Scaled" ->
            [cv EXCEPT !.scaling = msg.scaling,
                       !.translation = IF msg.some THEN msg.translation ELSE @]

\* MolCanvas::update on these messages, stopping at the first error
RECURSIVE update_at(_, _)
update_at(cv, messages) ==
    IF messages = <<>> \/ cv.err THEN cv
    ELSE update_at(apply_at(cv, Head(messages)), Tail(messages))

\* message_from_tool_action, ToolAction::ClickSelect and ToolAction::StartMove
ClickSelect_at(cv, hover, canvas_position) ==
    << ActionChanged(MovingSelection(canvas_position)) >>
    \o (IF ~Selection_contains(cv.selection, hover)
        THEN << [type |-> "NewSelection", selection |-> Selection_from(hover)] >>
        ELSE <<>>)

StartMove_at(canvas_position) == << ActionChanged(MovingSelection(canvas_position)) >>

\* a path of three atoms at (16,15) and a pair of bonded atoms at (46,-15)
MoveDocument ==
    (1 :> Molecule_placed(<< <<0, 0>>, <<Px(30), 0>>, <<Px(30), Px(30)>> >>,
                          << <<1, 2>>, <<2, 3>> >>, <<Px(16), Px(15)>>, 0))
    @@ (2 :> Molecule_placed(<< <<0, 0>>, <<0, Px(30)>> >>, << <<1, 2>> >>,
                             <<Px(46), Px(-15)>>, 4))

MovePoints == {<<Px(16), Px(15)>>, <<Px(20), Px(-40)>>, <<Px(-3), Px(15)>>}

\* where the press that starts the move can be
StartPoints == {<<Px(16), Px(15)>>, <<Px(46), Px(-15)>>}

\* the selections of up to two entries
MoveSelections == {s \in Selections(MoveDocument) : Len(s) <= 2}

\* what can be under the cursor: nothing, a molecule, an atom or a bond
MoveHovers(document) ==
    {NoHover}
    \cup {SelMolecule(m) : m \in DOMAIN document}
    \cup UNION {{SelAtom(m, a) : a \in DOMAIN document[m].atoms} : m \in DOMAIN document}
    \cup UNION {{SelBond(m, b) : b \in DOMAIN document[m].bonds} : m \in DOMAIN document}

\* the messages of the view and the mode, and a MoveSelection
ViewMessages ==
    {[type |-> "Translated", translation |-> <<Px(5), Px(-5)>>],
     [type |-> "Scaled", scaling |-> 2, some |-> FALSE, translation |-> <<0, 0>>],
     [type |-> "Scaled", scaling |-> 2, some |-> TRUE, translation |-> <<Px(7), 0>>],
     [type |-> "ToolChanged", tool |-> Tool("Erase")],
     ActionChanged([kind |-> "None"]),
     [type |-> "NewSelection", selection |-> <<SelAtom(1, 2), SelMolecule(2)>>],
     [type |-> "MoveSelection", position |-> <<Px(20), Px(-40)>>]}

InitMove ==
    /\ Fresh
    /\ prev_interaction = "None"
    /\ args \in [selection : MoveSelections,
                  tool : {Tool("Cursor"), Tool("Select")}]
    /\ result = << [cv |-> [document |-> MoveDocument, selection |-> args.selection,
                            tool |-> args.tool, action |-> [kind |-> "None"],
                            translation |-> <<0, 0>>, scaling |-> 1, err |-> FALSE],
                    from |-> <<>>, p0 |-> <<0, 0>>, press |-> <<>>, drags |-> <<>>,
                    before |-> <<>>, msg |-> <<>>, steps |-> 0] >>

\* the canvas after the messages of a press at p0 that starts a move; press
\* keeps the tool action, the hover and the canvas it found
MoveStarted(tool_action, hover, messages, canvas_position) ==
    /\ result[1].steps < MaxMoves
    /\ ~result[1].cv.err
    /\ result[1].from = <<>>
    /\ result[1].msg = <<>>
    /\ \E cv \in {update_at(result[1].cv, messages)} :
          result' = << [cv |-> cv, from |-> << cv >>, p0 |-> canvas_position,
                        press |-> << [tool_action |-> tool_action, hover |-> hover,
                                      cv |-> result[1].cv, messages |-> messages] >>,
                        drags |-> <<>>,
                        before |-> <<>>, msg |-> <<>>, steps |-> result[1].steps + 1] >>
    /\ UNCHANGED <<editor, prev_interaction, args>>

\* Tool::Cursor, MouseDown over a target or MouseTapped
MoveClickSelect ==
    /\ result[1].cv.tool.kind = "Cursor"
    /\ \E hover \in MoveHovers(result[1].cv.document) : \E p \in StartPoints :
          MoveStarted("ClickSelect", hover, ClickSelect_at(result[1].cv, hover, p), p)

\* Tool::Select, MouseDown over a part of the selection
MoveStartMove ==
    /\ result[1].cv.tool.kind = "Select"
    /\ \E hover \in MoveHovers(result[1].cv.document) : \E p \in StartPoints :
          /\ Selection_contains(result[1].cv.selection, hover)
          /\ MoveStarted("StartMove", hover, StartMove_at(p), p)

\* MouseDragged while the selection moves: cursor_dragged sends
\* MoveSelection(canvas_position)
MoveDragged ==
    /\ result[1].steps < MaxMoves
    /\ ~result[1].cv.err
    /\ result[1].cv.action.kind = "MovingSelection"
    /\ result[1].from # <<>>
    /\ result[1].msg = <<>>
    /\ \E p \in MovePoints :
       \E cv \in {update_at(result[1].cv, << [type |-> "MoveSelection", position |-> p] >>)} :
          result' = << [result[1] EXCEPT
                           !.cv = cv,
                           !.drags = Append(@, p),
                           !.steps = @ + 1] >>
    /\ UNCHANGED <<editor, prev_interaction, args>>

\* one message of the view or the mode given to MolCanvas::update, at any
\* point of the run, which ends with it
MoveMessage ==
    /\ result[1].msg = <<>>
    /\ ~result[1].cv.err
    /\ \E msg \in ViewMessages : \E cv \in {update_at(result[1].cv, << msg >>)} :
          result' = << [result[1] EXCEPT
                           !.cv = cv,
                           !.before = << result[1].cv >>, !.msg = << msg >>] >>
    /\ UNCHANGED <<editor, prev_interaction, args>>

NextMove ==
    \/ MoveClickSelect
    \/ MoveStartMove
    \/ MoveDragged
    \/ MoveMessage

SpecMove == InitMove /\ [][NextMove]_vars

\* ----------------------------------------------------------- graph notions
AtomsOf(mol) == DOMAIN mol.atoms

\* some bond joins an atom of S with an atom of T
Joined(mol, S, T) ==
    \E b \in DOMAIN mol.bonds :
        \/ mol.bonds[b].start \in S /\ mol.bonds[b].end \in T
        \/ mol.bonds[b].start \in T /\ mol.bonds[b].end \in S

\* no way to cut the atoms in two parts without cutting a bond
ConnectedGraph(mol) ==
    \A S \in SUBSET AtomsOf(mol) :
        (S # {} /\ S # AtomsOf(mol)) => Joined(mol, S, AtomsOf(mol) \ S)

WithoutBond(mol, b) == [mol EXCEPT !.bonds = Restrict(mol.bonds, DOMAIN mol.bonds \ {b})]

\* the atoms on the side of atom a: the least set with a that no bond leaves
SideOf(mol, a) ==
    CHOOSE S \in SUBSET AtomsOf(mol) :
        /\ a \in S
        /\ ~Joined(mol, S, AtomsOf(mol) \ S)
        /\ \A T \in SUBSET S : (a \in T /\ ~Joined(mol, T, AtomsOf(mol) \ T)) => T = S

\* ---------------------------------------------------------------- SpecApi
\* The document starts with one molecule, any connected graph of at most
\* MaxAtoms atoms and MaxBonds bonds without a bond from an atom to itself
\* (BondFinish never emits one); the Delete key is then pressed over its
\* atoms and bonds.
BondEnds(n) == {p \in (1..n) \X (1..n) : p[1] # p[2]}

\* bond identifiers are arbitrary: they are given in the order of the ends
InOrder(e) ==
    \A b \in DOMAIN e : \A c \in DOMAIN e :
        b < c => (e[b][1] < e[c][1] \/ (e[b][1] = e[c][1] /\ e[b][2] <= e[c][2]))

StartMolecule(n, e) ==
    [atoms |-> [a \in 1..n |-> Atom("")],
     bonds |-> [b \in DOMAIN e |-> Bond(e[b][1], e[b][2], "Normal1")]]

InitApi ==
    /\ \E n \in 1..MaxAtoms : \E k \in 0..MaxBonds :
          \E e \in {f \in [1..k -> BondEnds(n)] :
                       InOrder(f) /\ ConnectedGraph(StartMolecule(n, f))} :
              molecules = (1 :> StartMolecule(n, e))
    /\ selection = <<>>
    /\ tool = Tool("Cursor")
    /\ action = Action("None")
    /\ prev_interaction = "None"
    /\ text_input = NoInput
    /\ crashed = FALSE
    /\ last = NoOp
    /\ events = 0
    /\ args = <<>>
    /\ result = <<>>

DeleteAtomKey ==
    \E hover \in {h \in HoverTargets(St) : h.kind = "Atom"} : HandleEvent("Delete", hover, <<>>, TRUE)

DeleteBondKey ==
    \E hover \in {h \in HoverTargets(St) : h.kind = "Bond"} : HandleEvent("Delete", hover, <<>>, TRUE)

NextApi == DeleteAtomKey \/ DeleteBondKey

SpecApi == InitApi /\ [][NextApi]_vars

TypeOK ==
    /\ crashed \in BOOLEAN
    /\ prev_interaction \in MouseInteractions
    /\ tool \in Tools

\* ----------------------------------------------------------------- claims
Holders(a) == {m \in DOMAIN molecules : a \in AtomsOf(molecules[m])}

Deleted == last.op \in {"DeleteAtom", "DeleteBond"}

\* the two sides of the bond that the last DeleteBond removed
SideStart == SideOf(WithoutBond(last.pre, last.id), last.pre.bonds[last.id].start)

SideEnd == SideOf(WithoutBond(last.pre, last.id), last.pre.bonds[last.id].end)

\* C1: after Molecule::delete_atom / Molecule::delete_bond the home molecule
\* and the returned molecules have pairwise disjoint atom sets whose union is
\* the atom set before the deletion minus the deleted atom
C1_FragmentsPartition ==
    Deleted =>
        LET parts == <<last.home>> \o last.ret
            remaining == AtomsOf(last.pre) \ (IF last.op = "DeleteAtom" THEN {last.id} ELSE {})
        IN /\ UNION {AtomsOf(parts[i]) : i \in DOMAIN parts} = remaining
           /\ \A i, j \in DOMAIN parts : i # j => AtomsOf(parts[i]) \cap AtomsOf(parts[j]) = {}

\* an atom deletion that left three fragments
C1_Witness == last.op = "DeleteAtom" /\ Len(last.ret) = 2 /\ AtomsOf(last.home) # {}

\* C2: every molecule of the document has a connected bond graph
C2_MoleculesConnected == \A m \in DOMAIN molecules : ConnectedGraph(molecules[m])

\* an atom deletion has split a molecule
C2_Witness ==
    /\ last.op = "DeleteAtom"
    /\ Cardinality(DOMAIN molecules) = 2
    /\ \A m \in DOMAIN molecules : Cardinality(AtomsOf(molecules[m])) = 1

\* C3: after DeleteAtom(M, a) every other atom of M is in exactly one
\* molecule of the document
C3_EveryAtomInOneMolecule ==
    last.op = "DeleteAtom" =>
        \A a \in AtomsOf(last.pre) \ {last.id} : Cardinality(Holders(a)) = 1

\* C4: DeleteAtom(M, a) for an atom of a molecule of the document succeeds
C4_DeleteAtomSucceeds == last.op = "DeleteAtom" => ~last.err /\ ~crashed

\* C5: deleting the only bond between two halves leaves two molecules in
\* place of the original, one for each half
C5_BridgeSplitsInTwo ==
    (last.op = "DeleteBond" /\ SideStart # SideEnd) =>
        /\ ~last.err
        /\ Cardinality(DOMAIN molecules) = Cardinality(last.mols) + 1
        /\ last.mol \in DOMAIN molecules
        /\ \E new \in (DOMAIN molecules) \ last.mols :
              {AtomsOf(molecules[last.mol]), AtomsOf(molecules[new])} = {SideStart, SideEnd}

\* the one Normal(1) bond between atoms 1 and 2 was deleted
C5_Witness ==
    /\ last.op = "DeleteBond"
    /\ AtomsOf(last.pre) = {1, 2}
    /\ DOMAIN last.pre.bonds = {last.id}
    /\ last.pre.bonds[last.id].bond_type = "Normal1"
    /\ {AtomsOf(molecules[m]) : m \in DOMAIN molecules} = {{1}, {2}}

\* C6: deleting a bond whose ends stay connected returns no fragment and
\* leaves the atoms of the home molecule as they were
C6_RedundantBondKeepsMolecule ==
    (last.op = "DeleteBond" /\ SideStart = SideEnd) =>
        /\ ~last.err
        /\ last.ret = <<>>
        /\ AtomsOf(last.home) = AtomsOf(last.pre)
        /\ DOMAIN molecules = last.mols
        /\ AtomsOf(molecules[last.mol]) = AtomsOf(last.pre)

\* a bond of a ring of three atoms was deleted
C6_Witness ==
    /\ last.op = "DeleteBond"
    /\ Cardinality(AtomsOf(last.pre)) = 3
    /\ \A a \in AtomsOf(last.pre) : Cardinality(neighbours(last.pre, a)) = 2
    /\ last.ret = <<>>

\* C7: ConnectMolecules of X and Y, then deleting the connecting bond, leaves
\* two molecules with the atoms of X and the atoms of Y
C7_MergeThenDeleteRestores ==
    (last.op = "DeleteBond" /\ last.x # {}) =>
        /\ ~last.err
        /\ \E m1, m2 \in DOMAIN molecules :
              m1 # m2 /\ AtomsOf(molecules[m1]) = last.x /\ AtomsOf(molecules[m2]) = last.y

\* the bond that connected a molecule of two atoms was deleted
C7_Witness == last.op = "DeleteBond" /\ last.x # {} /\ Cardinality(last.y) = 2

\* C8: no molecule of the document is empty
C8_NoEmptyMolecule == \A m \in DOMAIN molecules : AtomsOf(molecules[m]) # {}

\* the last atom of a molecule was deleted and the molecule is gone
C8_Witness == last.op = "DeleteAtom" /\ ~last.err /\ last.mol \notin DOMAIN molecules

\* C9: both ends of every bond are atoms of the molecule that holds the bond
C9_NoDanglingBond ==
    \A m \in DOMAIN molecules : \A b \in DOMAIN molecules[m].bonds :
        /\ molecules[m].bonds[b].start \in AtomsOf(molecules[m])
        /\ molecules[m].bonds[b].end \in AtomsOf(molecules[m])

\* an atom with a bond was deleted and its molecule is still there
C9_Witness == last.op = "DeleteAtom" /\ ~last.err /\ last.mol \in DOMAIN molecules

\* C10: no atom and no bond is in two molecules of the document
C10_SingleOwner ==
    \A m1, m2 \in DOMAIN molecules :
        m1 # m2 => /\ AtomsOf(molecules[m1]) \cap AtomsOf(molecules[m2]) = {}
                   /\ (DOMAIN molecules[m1].bonds) \cap (DOMAIN molecules[m2].bonds) = {}

\* a bond deletion has split a molecule that still holds a bond
C10_Witness ==
    /\ last.op = "DeleteBond"
    /\ ~last.err
    /\ Cardinality(DOMAIN molecules) = 2
    /\ \E m \in DOMAIN molecules : DOMAIN molecules[m].bonds # {}

\* the place of the last event e in the sequence s, 0 when there is none
LastIndex(s, e) ==
    IF \E i \in DOMAIN s : s[i] = e
    THEN CHOOSE i \in DOMAIN s : s[i] = e /\ \A j \in DOMAIN s : s[j] = e => j <= i
    ELSE 0

\* the events before the last one
Earlier(s) == SubSeq(s, 1, Len(s) - 1)

\* a press has occurred with no release since
Held(s) == LastIndex(s, "ButtonPressed") > LastIndex(s, "ButtonReleased")

\* a move has occurred since the last press
MovedSincePress(s) == LastIndex(s, "CursorMoved") > LastIndex(s, "ButtonPressed")

\* C11: in every sequence of presses, moves and releases, a press yields
\* MouseDown; a move yields MouseDragged exactly when a press has occurred
\* with no release since, and None otherwise; a release yields None when no
\* press has occurred since the previous release, MouseTapped when no move
\* has occurred since the last press, and MouseReleased when one has.
C11_InteractionFollowsHistory ==
    args # <<>> =>
        LET e == args[Len(args)]
            h == Earlier(args)
        IN CASE e = "ButtonPressed" -> result = "MouseDown"
             [] e = "CursorMoved" -> result = IF Held(h) THEN "MouseDragged" ELSE "None"
             [] e = "ButtonReleased" ->
                   result = IF ~Held(h) THEN "None"
                            ELSE IF MovedSincePress(h) THEN "MouseReleased"
                            ELSE "MouseTapped"

\* a move after a tap yields None and a later drag ends in MouseReleased
C11_Witness ==
    /\ Len(args) = 5
    /\ args = <<"ButtonPressed", "ButtonReleased", "CursorMoved", "ButtonPressed", "CursorMoved">>
    /\ result = "MouseDragged"

\* the hover target is an entry of the selection, or an atom or a bond of a
\* molecule that is an entry
PartOfSelection(sel, hover) ==
    /\ hover # NoHover
    /\ \E i \in DOMAIN sel :
          \/ sel[i] = hover
          \/ hover.kind \in {"Atom", "Bond"} /\ sel[i] = SelMolecule(hover.mol)

\* C12: Tool::action gives StartPan for Cursor and MouseDown over nothing,
\* ClickSelect for Cursor and MouseDown or MouseTapped over a target,
\* StartMove for Select and MouseDown over a part of the selection and
\* DragSelectStart over anything else, BondStart(type) for Bond(type) and
\* MouseDown, BondFinish for Bond and MouseReleased or MouseTapped.
C12_ToolActionTable ==
    result # <<>> =>
        LET out == result[1]
            t == args.tool.kind
            i == args.interaction
        IN /\ (t = "Cursor" /\ i = "MouseDown" /\ args.hover = NoHover)
                 => out = ToolAction("StartPan")
           /\ (t = "Cursor" /\ i \in {"MouseDown", "MouseTapped"} /\ args.hover # NoHover)
                 => out = ToolAction("ClickSelect")
           /\ (t = "Select" /\ i = "MouseDown")
                 => out = IF PartOfSelection(args.selection, args.hover)
                          THEN ToolAction("StartMove")
                          ELSE ToolAction("DragSelectStart")
           /\ (t = "Bond" /\ i = "MouseDown")
                 => out = [kind |-> "BondStart", arg |-> args.tool.bond_type]
           /\ (t = "Bond" /\ i \in {"MouseReleased", "MouseTapped"})
                 => out = ToolAction("BondFinish")

\* Select and MouseDown over an atom of a selected whole molecule
C12_Witness ==
    /\ result = << ToolAction("StartMove") >>
    /\ args.tool = Tool("Select")
    /\ args.hover = SelAtom(1, 1)
    /\ args.selection = << SelMolecule(1) >>

\* the bounds of the entity e of the document, on the canvas
BoundsOf(mols, e) ==
    LET mol == mols[e.mol]
    IN CASE e.kind = "Atom" -> Bounds_add(Atom_bounds(mol.atoms[e.id]), mol.position)
         [] e.kind = "Bond" -> Bounds_add(Bond_bounds(mol.bonds[e.id], mol.atoms).bounds,
                                          mol.position)
         [] OTHER -> Molecule_bounds(mol)

\* the rating of the entity e at the point p: the distance from p to the
\* center of its bounds (here the square of twice the distance)
RatingOf(mols, e, p) == Rating(BoundsOf(mols, e), p)

\* the molecules whose bounds contain the point
MoleculesAt ==
    {e \in {SelMolecule(m) : m \in DOMAIN args.mols} :
        Bounds_contains(BoundsOf(args.mols, e), args.p)}

\* the atoms and bonds whose bounds contain the point, of the molecules whose
\* bounds contain it
AtomsAndBondsAt ==
    {e \in UNION {{SelAtom(m.mol, a) : a \in DOMAIN args.mols[m.mol].atoms}
                  \cup {SelBond(m.mol, b) : b \in DOMAIN args.mols[m.mol].bonds} :
                  m \in MoleculesAt} :
        Bounds_contains(BoundsOf(args.mols, e), args.p)}

\* C16: when the point is inside the bounds of an atom or a bond of a molecule
\* whose bounds contain it, get_hovered returns an atom or a bond, and one of
\* the lowest rating among all of them, never a whole molecule.
C16_AtomOrBondDominates ==
    (result # <<>> /\ AtomsAndBondsAt # {}) =>
        /\ result[1].hover \in AtomsAndBondsAt
        /\ \A e \in AtomsAndBondsAt :
              RatingOf(args.mols, result[1].hover, args.p) <= RatingOf(args.mols, e, args.p)

\* C17: get_hovered returns one entity or none; when no atom and no bond
\* contains the point it returns a molecule of the lowest rating among those
\* whose bounds contain the point, and nothing when there is none.
C17_LowestMolecule ==
    (result # <<>> /\ AtomsAndBondsAt = {}) =>
        /\ ~result[1].err
        /\ IF MoleculesAt = {} THEN result[1].hover = NoHover
           ELSE /\ result[1].hover \in MoleculesAt
                /\ \A e \in MoleculesAt :
                      RatingOf(args.mols, result[1].hover, args.p) <= RatingOf(args.mols, e, args.p)

\* two molecules contain the point, no atom and no bond does, and the one
\* returned has the strictly lower rating
C17_Witness ==
    /\ result # <<>>
    /\ AtomsAndBondsAt = {}
    /\ Cardinality(MoleculesAt) = 2
    /\ \E e \in MoleculesAt :
          RatingOf(args.mols, result[1].hover, args.p) < RatingOf(args.mols, e, args.p)

\* the bounds lie in the rectangle, sides included
FullyContained(bounds, rect) ==
    \A point \in Range(Bounds_points(bounds)) :
        /\ rect.x <= point[1] /\ point[1] <= rect.x + rect.width
        /\ rect.y <= point[2] /\ point[2] <= rect.y + rect.height

\* the rectangle of the drag
TheRect == DragRect(args.start, args.p)

\* C18: get_selection selects Molecule(m) for every molecule whose bounds are
\* fully contained in the rectangle; for every other molecule it selects
\* exactly the atoms whose bounds are fully contained in the rectangle; it
\* selects no bond, never a molecule together with one of its atoms, and no
\* entry twice.
C18_RectangleSelection ==
    result # <<>> =>
        LET sel == result[1]
        IN /\ \A m \in DOMAIN args.mols :
                 IF FullyContained(BoundsOf(args.mols, SelMolecule(m)), TheRect)
                 THEN /\ SelMolecule(m) \in Range(sel)
                      /\ \A i \in DOMAIN sel : sel[i].mol = m => sel[i] = SelMolecule(m)
                 ELSE \A e \in {SelMolecule(m)}
                             \cup {SelAtom(m, a) : a \in DOMAIN args.mols[m].atoms} :
                         e \in Range(sel) <=>
                             (e.kind = "Atom" /\ FullyContained(BoundsOf(args.mols, e), TheRect))
           /\ \A i \in DOMAIN sel : sel[i].kind # "Bond"
           /\ \A i \in DOMAIN sel : \A j \in DOMAIN sel : sel[i] = sel[j] => i = j

\* one molecule is selected whole and two atoms of another, which the
\* rectangle cuts
C18_Witness ==
    /\ result # <<>>
    /\ \E m \in DOMAIN args.mols : \E n \in DOMAIN args.mols :
          /\ SelMolecule(m) \in Range(result[1])
          /\ Cardinality({e \in Range(result[1]) : e.kind = "Atom" /\ e.mol = n}) = 2
          /\ Cardinality(DOMAIN args.mols[n].atoms) = 3

\* the entities get_selection is to select in the rectangle
InRectangle(mols, rect) ==
    UNION {IF FullyContained(BoundsOf(mols, SelMolecule(m)), rect) THEN {SelMolecule(m)}
           ELSE {e \in {SelAtom(m, a) : a \in DOMAIN mols[m].atoms} :
                    FullyContained(BoundsOf(mols, e), rect)} : m \in DOMAIN mols}

\* C13: for every tool MouseDragged gives CursorDragged; Panning gives one
\* Translated, MovingSelection one MoveSelection, DrawingSelection one
\* NewSelection of what lies in the rectangle between the start of the drag
\* and the point; Erasing, DrawingBond and None give no message, and leave
\* the document and the live action as they are.
C13_DraggedFollowsAction ==
    result # <<>> =>
        LET out == result[1]
            kind == args.action.kind
        IN /\ out.tool_action = ToolAction("CursorDragged")
           /\ CASE kind = "Panning" -> out.messages = << [type |-> "Translated"] >>
                [] kind = "MovingSelection" -> out.messages = << [type |-> "MoveSelection"] >>
                [] kind = "DrawingSelection" ->
                      /\ Len(out.messages) = 1
                      /\ out.messages[1].type = "NewSelection"
                      /\ Range(out.messages[1].selection) = InRectangle(args.mols, TheRect)
                [] OTHER ->
                      /\ out.messages = <<>>
                      /\ ~out.r.err
                      /\ out.r.st.molecules = Graphs(args.mols)
                      /\ out.r.st.action = args.action

\* a drag with the bond tool while a selection is drawn selects two atoms
C13_Witness ==
    /\ result # <<>>
    /\ args.tool = ToolBond("Wedge")
    /\ args.action = Action("DrawingSelection")
    /\ Len(result[1].messages) = 1
    /\ Len(result[1].messages[1].selection) = 2
    /\ result[1].r.st.selection = result[1].messages[1].selection

\* the bonds of the molecule new that the molecule old has not, and that
\* join the atoms a and b
AddedBonds(old, new, a, b) ==
    {id \in DOMAIN new.bonds \ DOMAIN old.bonds :
        new.bonds[id].start = a /\ new.bonds[id].end = b}

\* the molecule new has the bonds of old, as they were, and one more
OneMoreBond(old, new) ==
    /\ DOMAIN old.bonds \subseteq DOMAIN new.bonds
    /\ Cardinality(DOMAIN new.bonds \ DOMAIN old.bonds) = 1
    /\ \A id \in DOMAIN old.bonds : new.bonds[id] = old.bonds[id]

\* C14: on BondFinish with a bond drawn from atom A of molecule M, an atom B
\* other than A under the pointer gives exactly NewBond(M, A, B) when B is in M
\* (one bond more, no atom more) and exactly ConnectMolecules(M, A, M2, B) when
\* B is in another molecule M2 (M2 merged into M, then one bond more); every
\* other target gives FinishBond (one atom and one bond more in M).  With any
\* other live action BondFinish gives no message.
C14_BondFinishResolution ==
    result # <<>> =>
        LET out == result[1]
            after == out.r.st.molecules
            M == action.molecule_id
            A == action.atom_id
            h == args.hover
        IN /\ out.tool_action = ToolAction("BondFinish")
           /\ ~out.r.err
           /\ CASE action.kind # "DrawingBond" ->
                      out.messages = <<>> /\ after = molecules
                [] h.kind = "Atom" /\ h.id # A /\ h.mol = M ->
                      /\ out.messages = << [type |-> "NewBond", mol |-> M, atom |-> A,
                                            atom2 |-> h.id, bond_type |-> action.bond_type] >>
                      /\ DOMAIN after = DOMAIN molecules
                      /\ \A m \in DOMAIN molecules \ {M} : after[m] = molecules[m]
                      /\ after[M].atoms = molecules[M].atoms
                      /\ OneMoreBond(molecules[M], after[M])
                      /\ AddedBonds(molecules[M], after[M], A, h.id) # {}
                [] h.kind = "Atom" /\ h.id # A /\ h.mol # M ->
                      /\ out.messages = << [type |-> "ConnectMolecules", mol |-> M, atom |-> A,
                                            mol2 |-> h.mol, atom2 |-> h.id,
                                            bond_type |-> action.bond_type] >>
                      /\ DOMAIN after = DOMAIN molecules \ {h.mol}
                      /\ \A m \in DOMAIN after \ {M} : after[m] = molecules[m]
                      /\ after[M].atoms = Merge(molecules[M].atoms, molecules[h.mol].atoms)
                      /\ OneMoreBond([bonds |-> Merge(molecules[M].bonds, molecules[h.mol].bonds)],
                                     after[M])
                      /\ AddedBonds(molecules[M], after[M], A, h.id) # {}
                [] OTHER ->
                      /\ out.messages = << [type |-> "FinishBond", mol |-> M, atom |-> A,
                                            bond_type |-> action.bond_type] >>
                      /\ DOMAIN after = DOMAIN molecules
                      /\ \A m \in DOMAIN molecules \ {M} : after[m] = molecules[m]
                      /\ DOMAIN molecules[M].atoms \subseteq DOMAIN after[M].atoms
                      /\ \A a \in DOMAIN molecules[M].atoms :
                            after[M].atoms[a] = molecules[M].atoms[a]
                      /\ OneMoreBond(molecules[M], after[M])
                      /\ \E b \in DOMAIN after[M].atoms \ DOMAIN molecules[M].atoms :
                            /\ DOMAIN after[M].atoms = DOMAIN molecules[M].atoms \cup {b}
                            /\ \A m \in DOMAIN molecules : b \notin DOMAIN molecules[m].atoms
                            /\ AddedBonds(molecules[M], after[M], A, b) # {}

\* a bond from a molecule of three atoms to an atom of another molecule
\* leaves one molecule of five atoms and four bonds
C14_Witness ==
    /\ result # <<>>
    /\ Len(result[1].messages) = 1
    /\ result[1].messages[1].type = "ConnectMolecules"
    /\ DOMAIN result[1].r.st.molecules = {action.molecule_id}
    /\ Cardinality(DOMAIN result[1].r.st.molecules[action.molecule_id].atoms) = 5
    /\ Cardinality(DOMAIN result[1].r.st.molecules[action.molecule_id].bonds) = 4

\* the place in the world of atom a of the molecule mol
World(mol, a) ==
    <<mol.position[1] + mol.atoms[a].position[1], mol.position[2] + mol.atoms[a].position[2]>>

\* the vector v has the length BOND_LENGTH and the direction of d, or is
\* (BOND_LENGTH, 0) when d is null
BondLengthAlong(v, d) ==
    IF d = <<0, 0>> THEN v = <<2 * BOND_LENGTH, 0>>
    ELSE /\ v[1] * v[1] + v[2] * v[2] = (2 * BOND_LENGTH) * (2 * BOND_LENGTH)
         /\ v[1] * d[2] = v[2] * d[1]
         /\ v[1] * d[1] + v[2] * d[2] > 0

AbsentId ==
    IF args.op \in AtomOperations
    THEN args.id \notin DOMAIN molecules[args.mol].atoms
    ELSE args.id \notin DOMAIN molecules[args.mol].bonds

\* C19: rename_atom, move_atom, move_bond, change_bond_type, flip_bond,
\* delete_atom and delete_bond, called with an atom or a bond identifier that
\* is not in the molecule, return an error, and MolCanvas::update returns it
\* to its caller.
C19_MissingIdIsError ==
    (result # <<>> /\ AbsentId) => (result[1].err /\ result[1].update_err)

\* atom a of the molecule mol is at the place p of the world less the
\* position of the molecule
LocalTo(mol, a, p) ==
    /\ mol.atoms[a].position[1] = p[1] - mol.position[1]
    /\ mol.atoms[a].position[2] = p[2] - mol.position[2]

\* C20: Molecule::add_atom fails exactly when the atom identifier is in the
\* molecule, State::add_molecule_with_atom exactly when the molecule identifier
\* is in the document; when they succeed the new atom is in the molecule (the
\* new molecule has it alone), every other atom and molecule is as before, and
\* the position of the new atom in its molecule is the given position less the
\* position of the molecule.
C20_CollisionOrPlaced ==
    result # <<>> =>
        LET before == args.mols
            after == result[1].mols
            M == args.molecule_id
            A == args.atom_id
        IN IF args.op = "add_atom"
           THEN /\ result[1].err <=> A \in DOMAIN before[M].atoms
                /\ ~result[1].err =>
                      /\ DOMAIN after = DOMAIN before
                      /\ \A m \in DOMAIN before \ {M} : after[m] = before[m]
                      /\ DOMAIN after[M].atoms = DOMAIN before[M].atoms \cup {A}
                      /\ \A a \in DOMAIN before[M].atoms : after[M].atoms[a] = before[M].atoms[a]
                      /\ after[M].bonds = before[M].bonds
                      /\ after[M].position = before[M].position
                      /\ LocalTo(after[M], A, args.position)
           ELSE /\ result[1].err <=> M \in DOMAIN before
                /\ ~result[1].err =>
                      /\ DOMAIN after = DOMAIN before \cup {M}
                      /\ \A m \in DOMAIN before : after[m] = before[m]
                      /\ DOMAIN after[M].atoms = {A}
                      /\ after[M].bonds = EmptyMap
                      /\ LocalTo(after[M], A, args.position)

\* an atom added at (40,10) to a molecule at (16,15)
C20_Witness ==
    /\ result # <<>>
    /\ args.op = "add_atom"
    /\ ~result[1].err
    /\ args.position = <<80, 20>>
    /\ args.mols[args.molecule_id].position = <<32, 30>>
    /\ result[1].mols[args.molecule_id].atoms[args.atom_id].position = <<48, -10>>

\* C21: a message MolCanvas::update fails on leaves the document and the
\* selection exactly as they were before the message.
C21_FailedMessageChangesNothing ==
    (result # <<>> /\ result[1].err) =>
        (result[1].molecules = molecules /\ result[1].selection = selection)

\* the message of args has moved the selected molecule
MovedSelection ==
    /\ args.type = "MoveSelection"
    /\ action.kind = "MovingSelection"
    /\ selection # <<>>
    /\ ~result[1].err

\* C22: when MolCanvas::update returns, with an error or without, and the
\* message has changed the document (its atoms, labels, bonds or bond types,
\* or the position of a molecule), the frame rendered before is no longer in
\* the cache.
C22_ChangedDocumentClearsCache ==
    (result # <<>> /\ (result[1].molecules # molecules \/ MovedSelection)) =>
        ~result[1].cached

\* the molecules of the document doc whatever their identifiers, and the one
\* under the identifier m
UpToFreshIds(doc, m) ==
    [all |-> {doc[n] : n \in DOMAIN doc},
     home |-> IF m \in DOMAIN doc THEN doc[m] ELSE NullMol]

\* C23: two runs of get_hovered at the same point of the same document give
\* the same target, and two runs of delete_atom of the same atom of the same
\* document give the same document up to the fresh identifiers, with the same
\* fragment under the identifier of the molecule, whatever the order in which
\* the maps of molecules, atoms and bonds yield their entries.
C23_SameRunSameResult ==
    result # <<>> =>
        IF args.op = "get_hovered"
        THEN result[1].first = result[1].second
        ELSE /\ result[1].first.err = result[1].second.err
             /\ UpToFreshIds(result[1].first.molecules, args.molecule_id)
                   = UpToFreshIds(result[1].second.molecules, args.molecule_id)

\* C24: from the scale 1.0 the scale stays in [0.1, 5.0] after any wheel
\* events, and a wheel event that would push the scale past the bound it has
\* reached (up at 5.0, down at 0.1) gives no Scaled message and changes
\* neither the scale nor the pan translation.
C24_ScaleStaysInRange ==
    /\ 10 * result.scaling[1] >= result.scaling[2]
    /\ result.scaling[1] <= 5 * result.scaling[2]
    /\ \A b \in Range(result.before) :
          (\/ b.y > 0 /\ b.scaling = <<5, 1>>
           \/ b.y < 0 /\ b.scaling = <<1, 10>>)
             => /\ b.message = NoMessage
                /\ result.scaling = b.scaling
                /\ result.translation = b.translation

\* a wheel event up at the scale 5.0, reached from 1.0
C24_Witness ==
    /\ result.before # <<>>
    /\ result.before[1].y > 0
    /\ result.before[1].scaling = <<5, 1>>
    /\ result.scaling = <<5, 1>>

\* the point of the world under the cursor, at c from the center of the
\* canvas, in the view of scaling s and translation t: c / s - t
UnderCursor(c, s, t) ==
    [i \in 1..2 |-> FracSub(FracDiv(Frac(c[i], 1), s), t[i])]

\* C25: a wheel event with the cursor on the canvas leaves the point of the
\* world under the cursor where it is: (q - center)/s - t before the step
\* equals (q - center)/s' - t' after it.
C25_ZoomKeepsPointUnderCursor ==
    \A b \in Range(result.before) :
        b.cursor_to_center # <<>> =>
            UnderCursor(b.cursor_to_center, b.scaling, b.translation)
                = UnderCursor(b.cursor_to_center, result.scaling, result.translation)

\* the atoms bonded to atom a of the molecule mol
BondedTo(mol, a) ==
    {n \in DOMAIN mol.atoms \ {a} :
        \E b \in DOMAIN mol.bonds : {mol.bonds[b].start, mol.bonds[b].end} = {a, n}}

\* a neighbour of atom a blocks the direction: its unit vector from a has a
\* component beyond 0.1 that way (|x| > 0.1 is 99 x^2 > y^2)
Blocked(mol, a, direction) ==
    \E n \in BondedTo(mol, a) :
        LET x == mol.atoms[n].position[1] - mol.atoms[a].position[1]
            y == mol.atoms[n].position[2] - mol.atoms[a].position[2]
        IN CASE direction = "Right" -> x > 0 /\ 99 * x * x > y * y
             [] direction = "Left" -> x < 0 /\ 99 * x * x > y * y
             [] direction = "Down" -> y > 0 /\ 99 * y * y > x * x
             [] direction = "Up" -> y < 0 /\ 99 * y * y > x * x

\* the first of Right, Left, Up, Down that is not blocked, or Right
FirstFree(mol, a) ==
    LET preference == <<"Right", "Left", "Up", "Down">>
        free == {i \in 1..4 : ~Blocked(mol, a, preference[i])}
    IN IF free = {} THEN "Right"
       ELSE preference[CHOOSE i \in free : \A j \in free : i <= j]

DirectionsRight(mol) == \A a \in DOMAIN mol.atoms : mol.atoms[a].direction = FirstFree(mol, a)

\* the molecules a call leaves: those of the document, or the molecule and
\* the molecules split off
Outcome ==
    IF "document" \in DOMAIN result[1]
    THEN {result[1].document[m] : m \in DOMAIN result[1].document}
    ELSE {result[1].mol} \cup {result[1].ret[i] : i \in DOMAIN result[1].ret}

\* C26: after add_bond, delete_atom, delete_bond, move_atom, move_bond,
\* extend, rename_atom and move_molecule on a molecule whose labels have their
\* directions, every atom of the molecules it leaves has
\* as label direction the first of Right, Left, Up, Down that no bonded
\* neighbour blocks, and Right when all four are blocked or it has no neighbour.
C26_LabelDirections ==
    (result # <<>> /\ ~result[1].err /\ DirectionsRight(args.mol)) =>
        \A mol \in Outcome : DirectionsRight(mol)

\* an atom whose label goes from Up to Down
C26_Witness ==
    /\ result # <<>>
    /\ ~result[1].err
    /\ args.op = "move_bond"
    /\ \E a \in DOMAIN args.mol.atoms \cap DOMAIN result[1].mol.atoms :
          /\ args.mol.atoms[a].direction = "Up"
          /\ result[1].mol.atoms[a].direction = "Down"

\* the place of atom a of the molecule mol on the canvas
WorldPosition(mol, a) ==
    <<mol.position[1] + mol.atoms[a].position[1], mol.position[2] + mol.atoms[a].position[2]>>

\* the atoms of the molecule `from` are in `to`, at the same places of the
\* canvas and with the same labels
KeptInPlace(from, to) ==
    \A a \in DOMAIN from.atoms :
        /\ a \in DOMAIN to.atoms
        /\ WorldPosition(to, a) = WorldPosition(from, a)
        /\ to.atoms[a].label = from.atoms[a].label

\* the bonds of the molecule `from` are in `to`
BondsKept(from, to) ==
    \A b \in DOMAIN from.bonds : b \in DOMAIN to.bonds /\ to.bonds[b] = from.bonds[b]

\* C27: merging a molecule Y into a molecule X (Molecule::extend, alone and
\* in ConnectMolecules) keeps every atom of X and of Y at its place on the
\* canvas: the atoms of Y are translated by position(Y) - position(X); X then
\* holds exactly the atoms of both and the bonds of both (and, in
\* ConnectMolecules, the connecting bond), and Y is no longer in the document.
C27_ExtendKeepsWorldPositions ==
    (result # <<>> /\ args.op \in {"extend", "connect"} /\ ~result[1].err) =>
        LET X == args.mol
            Y == args.other
            after == result[1].mol
        IN /\ after.position = X.position
           /\ KeptInPlace(X, after)
           /\ KeptInPlace(Y, after)
           /\ \A a \in DOMAIN Y.atoms :
                 after.atoms[a].position[1] - Y.atoms[a].position[1]
                     = Y.position[1] - X.position[1]
                 /\ after.atoms[a].position[2] - Y.atoms[a].position[2]
                     = Y.position[2] - X.position[2]
           /\ DOMAIN after.atoms = DOMAIN X.atoms \cup DOMAIN Y.atoms
           /\ BondsKept(X, after)
           /\ BondsKept(Y, after)
           /\ args.op = "extend" => DOMAIN after.bonds = DOMAIN X.bonds \cup DOMAIN Y.bonds
           /\ args.op = "connect" =>
                 /\ Cardinality(DOMAIN after.bonds \ (DOMAIN X.bonds \cup DOMAIN Y.bonds)) = 1
                 /\ DOMAIN result[1].document = {1}

\* ConnectMolecules of a molecule with a molecule of two atoms at another
\* position
C27_Witness ==
    /\ result # <<>>
    /\ args.op = "connect"
    /\ ~result[1].err
    /\ Cardinality(DOMAIN args.other.atoms) = 2
    /\ Cardinality(DOMAIN args.mol.atoms) = 3
    /\ args.other.position # args.mol.position
    /\ \E a \in DOMAIN args.other.atoms :
          result[1].mol.atoms[a].position # args.other.atoms[a].position

\* C28: move_molecule(translation) changes only the position of the molecule,
\* by the translation: the local position, the label and the label direction
\* of every atom, every bond and the cached local bounds stay, so that every
\* atom moves on the canvas by exactly the translation.
C28_MoveMoleculeMovesOnlyPosition ==
    (result # <<>> /\ args.op = "move_molecule") =>
        LET before == args.mol
            after == result[1].mol
        IN /\ ~result[1].err
           /\ after.position[1] = before.position[1] + args.v[1]
           /\ after.position[2] = before.position[2] + args.v[2]
           /\ after.atoms = before.atoms
           /\ after.bonds = before.bonds
           /\ after.local_bounds = before.local_bounds
           /\ \A a \in DOMAIN before.atoms :
                 /\ WorldPosition(after, a)[1] = WorldPosition(before, a)[1] + args.v[1]
                 /\ WorldPosition(after, a)[2] = WorldPosition(before, a)[2] + args.v[2]

\* a molecule of three atoms and two bonds moved up and to the left
C28_Witness ==
    /\ result # <<>>
    /\ args.op = "move_molecule"
    /\ args.v[1] < 0
    /\ args.v[2] > 0
    /\ Cardinality(DOMAIN args.mol.atoms) = 3
    /\ Cardinality(DOMAIN args.mol.bonds) = 2
    /\ result[1].mol.position # args.mol.position

\* the molecule as the deletion leaves its graph: without the atom and its
\* bonds, or without the bond
Cut ==
    IF args.op = "State::delete_bond" THEN WithoutBond(args.mol, args.a)
    ELSE [atoms |-> Restrict(args.mol.atoms, DOMAIN args.mol.atoms \ {args.a}),
          bonds |-> Restrict(args.mol.bonds,
                             {b \in DOMAIN args.mol.bonds :
                                 args.a \notin {args.mol.bonds[b].start, args.mol.bonds[b].end}})]

\* the deletion splits the molecule: what is left of it is not connected
Splits == ~ConnectedGraph(Cut)

\* C29: when State::delete_atom or State::delete_bond splits a molecule, the
\* atoms connected to the first touched atom (for delete_bond the start of the
\* bond) stay in the molecule under its identifier, every other fragment is a
\* molecule under another identifier with the position of the source, and
\* every atom that is left is where it was on the canvas.
C29_SplitKeepsHomeAndPlaces ==
    (result # <<>> /\ args.op \in {"State::delete_atom", "State::delete_bond"} /\ Splits) =>
        LET document == result[1].document
            first == result[1].touched[1]
        IN /\ 1 \in DOMAIN document
           /\ DOMAIN document[1].atoms = SideOf(Cut, first)
           /\ args.op = "State::delete_bond" => first = args.mol.bonds[args.a].start
           /\ \A a \in DOMAIN Cut.atoms :
                 \E m \in DOMAIN document :
                    /\ DOMAIN document[m].atoms = SideOf(Cut, a)
                    /\ document[m].position = args.mol.position
                    /\ WorldPosition(document[m], a) = WorldPosition(args.mol, a)
                    /\ \A n \in DOMAIN document \ {m} : a \notin DOMAIN document[n].atoms

\* the corners of a box
Corners(box) == {Bounds_points(box)[i] : i \in 1..4}

\* C30: Bounds::union is idempotent: for any box A, of any offset, size and
\* angle, union(A, A) is A: the box of the same corners.
C30_UnionIdempotent ==
    (result # <<>> /\ args.self = args.bounds) => Corners(result[1]) = Corners(args.self)

\* C30 as it holds: for any box A along the axes (angle 0), of any offset
\* and size, union(A, A) is A; for any box A the result is a box along the
\* axes.
C30_UnionIdempotentAlongAxes ==
    (result # <<>> /\ args.self = args.bounds) =>
        /\ result[1].angle = 0
        /\ args.self.angle = 0 => result[1] = args.self

\* the union with itself of a box along the axes, away from the origin
C30_Witness ==
    /\ result # <<>>
    /\ args.self = args.bounds
    /\ args.self.angle = 0
    /\ args.self.offset = <<20, -10>>
    /\ args.self.size = <<20, 10>>
    /\ result[1] = args.self

\* the atom the text input is for is in the document
TargetExists(mols, input) ==
    /\ input.molecule_id \in DOMAIN mols
    /\ input.atom_id \in DOMAIN mols[input.molecule_id].atoms

\* the label of the atom the text input is for
TargetLabel(mols, input) == mols[input.molecule_id].atoms[input.atom_id].label

C33_RenameTargetExists == text_input.open => TargetExists(molecules, text_input)

\* the entity an entry of the selection names is in the document
EntryExists(mols, entry) ==
    /\ entry.mol \in DOMAIN mols
    /\ entry.kind = "Atom" => entry.id \in DOMAIN mols[entry.mol].atoms
    /\ entry.kind = "Bond" => entry.id \in DOMAIN mols[entry.mol].bonds

\* C32: every entry of the selection names a molecule of the document, an
\* atom of a molecule of the document or a bond of a molecule of the document.
C32_SelectionExists == \A i \in DOMAIN selection : EntryExists(molecules, selection[i])

\* two entries were selected, the atom of the second molecule among them,
\* when the second molecule was merged into the first
C32_Witness ==
    /\ events > 0
    /\ ~crashed
    /\ Len(args.selection) = 2
    /\ \E i \in DOMAIN args.selection : args.selection[i] = SelAtom(2, 3)
    /\ 2 \notin DOMAIN molecules
    /\ 3 \in DOMAIN molecules[1].atoms

\* C34: a move of the cursor is a MouseDragged only while the left button is
\* held: once the button was released, wherever the cursor was then, the
\* moves of the cursor inside the canvas are MouseInteraction::None and bring
\* no message that moves the selection, pans or selects.
C34_DraggedOnlyWhileHeld ==
    (result # <<>> /\ result[1].event = "CursorMoved" /\ ~args.held) =>
        /\ result[1].interaction \in {"None", "Ignored"}
        /\ \A i \in DOMAIN result[1].messages :
              result[1].messages[i].type \notin {"MoveSelection", "Translated", "NewSelection"}

\* C35: when add_atom fails with AtomCollision the atom that had the
\* identifier is still in the molecule with its label and its position, and
\* when add_molecule_with_atom fails with MoleculeCollision the molecule that
\* had the identifier is still in the document with its atoms, its bonds and
\* its position.
C35_CollisionKeepsExisting ==
    (result # <<>> /\ result[1].err) =>
        LET before == args.mols
            after == result[1].mols
            M == args.molecule_id
            A == args.atom_id
        IN IF args.op = "add_atom"
           THEN /\ A \in DOMAIN after[M].atoms
                /\ after[M].atoms[A].label = before[M].atoms[A].label
                /\ after[M].atoms[A].position = before[M].atoms[A].position
           ELSE /\ M \in DOMAIN after
                /\ after[M].atoms = before[M].atoms
                /\ after[M].bonds = before[M].bonds
                /\ after[M].position = before[M].position

\* C36: whenever the live action is DrawingBond of molecule M and atom A, the
\* molecule M is in the document and holds the atom A.
C36_DrawingBondTargetExists ==
    (~crashed /\ action.kind = "DrawingBond") =>
        /\ action.molecule_id \in DOMAIN molecules
        /\ action.atom_id \in DOMAIN molecules[action.molecule_id].atoms

\* the bond drawn from an atom of a molecule after another molecule was
\* merged into it
C36_Witness ==
    /\ ~crashed
    /\ action.kind = "DrawingBond"
    /\ last.op = "ConnectMolecules"
    /\ ~last.err
    /\ action.molecule_id \in DOMAIN molecules
    /\ Cardinality(DOMAIN molecules[action.molecule_id].atoms) >= 2


\* the atoms the entries of a selection carry along: every atom of a selected
\* molecule, a selected atom, the two ends of a selected bond
CarriedAtoms(document, entries) ==
    {ma \in UNION {{<<m, a>> : a \in DOMAIN document[m].atoms} : m \in DOMAIN document} :
        \E i \in DOMAIN entries :
           /\ entries[i].mol = ma[1]
           /\ \/ entries[i].kind = "Molecule"
              \/ entries[i].kind = "Atom" /\ entries[i].id = ma[2]
              \/ /\ entries[i].kind = "Bond"
                 /\ ma[2] \in {document[ma[1]].bonds[entries[i].id].start,
                               document[ma[1]].bonds[entries[i].id].end}}

\* the point of the last drag of the move rec, the point of the press when
\* there was none
LastPoint(rec) == IF rec.drags = <<>> THEN rec.p0 ELSE rec.drags[Len(rec.drags)]

\* the entry of a selection moved by d between the documents `from` and `to`:
\* the offset of a molecule, the local position of an atom, of the two ends
\* of a bond
EntryMovedBy(entry, from, to, d) ==
    LET local(a) == to[entry.mol].atoms[a].position
        was(a) == from[entry.mol].atoms[a].position
    IN CASE entry.kind = "Molecule" ->
                to[entry.mol].position = Plus(from[entry.mol].position, d)
         [] entry.kind = "Atom" ->
                /\ local(entry.id) = Plus(was(entry.id), d)
                /\ to[entry.mol].position = from[entry.mol].position
         [] OTHER ->
                /\ \A a \in {from[entry.mol].bonds[entry.id].start,
                             from[entry.mol].bonds[entry.id].end} :
                      local(a) = Plus(was(a), d)
                /\ to[entry.mol].position = from[entry.mol].position

\* C37: after a press at p0 that starts a move (ClickSelect or StartMove) and
\* drags at p1..pn, every entry of the selection has moved by pn - p0 in all
\* (the offset of a selected molecule, the position of a selected atom, both
\* ends of a selected bond), and every atom that no entry carries is where it
\* was on the canvas.
C37_MovedByLastMinusFirst ==
    \A rec \in Range(result) :
        (rec.from # <<>> /\ rec.msg = <<>>) =>
            LET from == rec.from[1].document
                to == rec.cv.document
                d == Minus(LastPoint(rec), rec.p0)
            IN /\ ~rec.cv.err
               /\ rec.cv.selection = rec.from[1].selection
               /\ DOMAIN to = DOMAIN from
               /\ \A i \in DOMAIN rec.cv.selection :
                     EntryMovedBy(rec.cv.selection[i], from, to, d)
               /\ \A m \in DOMAIN from :
                     /\ DOMAIN to[m].atoms = DOMAIN from[m].atoms
                     /\ to[m].bonds = from[m].bonds
                     /\ \A a \in DOMAIN from[m].atoms :
                           WorldPosition(to[m], a)
                               = Plus(WorldPosition(from[m], a),
                                      IF <<m, a>> \in CarriedAtoms(from, rec.cv.selection)
                                      THEN d ELSE <<0, 0>>)

\* an atom of one molecule and the whole of the other, after a press and two
\* drags to different points, neither of them the point of the press
C37_Witness ==
    /\ result # <<>>
    /\ result[1].from # <<>>
    /\ result[1].msg = <<>>
    /\ Range(result[1].cv.selection) = {SelAtom(1, 2), SelMolecule(2)}
    /\ Len(result[1].drags) = 2
    /\ result[1].drags[1] # result[1].drags[2]
    /\ result[1].drags[1] # result[1].p0
    /\ result[1].drags[2] # result[1].p0
    /\ result[1].cv.action = MovingSelection(result[1].drags[2])

\* C38: a message of the view or the mode (Translated, Scaled, ToolChanged,
\* ActionChanged, NewSelection) leaves the molecules as they were, with their
\* atoms, bonds, positions and labels, and a MoveSelection that arrives while
\* the live action is not MovingSelection leaves the whole canvas as it was.
C38_ViewMessagesKeepMolecules ==
    \A rec \in Range(result) :
        rec.msg # <<>> =>
            /\ rec.msg[1].type \in {"Translated", "Scaled", "ToolChanged", "ActionChanged",
                                    "NewSelection"}
                  => /\ rec.cv.document = rec.before[1].document
                     /\ ~rec.cv.err
            /\ (rec.msg[1].type = "MoveSelection"
                /\ rec.before[1].action.kind # "MovingSelection")
                  => rec.cv = rec.before[1]

\* a new selection that arrives in the middle of the move of a whole
\* molecule, after a drag
C38_Witness ==
    /\ result # <<>>
    /\ result[1].msg # <<>>
    /\ result[1].msg[1].type = "NewSelection"
    /\ result[1].drags # <<>>
    /\ result[1].before[1].document # MoveDocument
    /\ \E i \in DOMAIN result[1].before[1].selection :
          result[1].before[1].selection[i].kind = "Molecule"
    /\ result[1].cv.selection = result[1].msg[1].selection

\* C39: ClickSelect over a target that is part of the selection (an entry of
\* it, or an atom or bond of a selected whole molecule) leaves the selection as
\* it was and only starts MovingSelection; over any other target it makes that
\* target the one entry of the selection, and over nothing it empties the
\* selection.
C39_ClickSelectSelection ==
    \A rec \in Range(result) :
        (rec.press # <<>> /\ rec.press[1].tool_action = "ClickSelect" /\ rec.drags = <<>>
         /\ rec.msg = <<>>) =>
            LET hover == rec.press[1].hover
                was == rec.press[1].cv
            IN /\ ~rec.cv.err
               /\ rec.cv.action = MovingSelection(rec.p0)
               /\ rec.cv = [was EXCEPT !.action = rec.cv.action, !.selection = rec.cv.selection]
               /\ IF hover.kind = "None" THEN rec.cv.selection = <<>>
                  ELSE IF PartOfSelection(was.selection, hover)
                  THEN /\ rec.cv.selection = was.selection
                       /\ Len(rec.press[1].messages) = 1
                  ELSE rec.cv.selection = << hover >>

\* the click on a bond of a molecule that is selected whole, with another
\* entry: the two entries stay
C39_Witness ==
    /\ result # <<>>
    /\ result[1].press # <<>>
    /\ result[1].press[1].tool_action = "ClickSelect"
    /\ result[1].press[1].hover = SelBond(1, 2)
    /\ Range(result[1].press[1].cv.selection) = {SelMolecule(1), SelAtom(2, 5)}
    /\ result[1].cv.selection = result[1].press[1].cv.selection
    /\ result[1].cv.action.kind = "MovingSelection"
    /\ result[1].drags = <<>>
    /\ result[1].msg = <<>>
====
